---------------------------- MODULE Spec2Model ----------------------------
(***************************************************************************)
(* Entitlement & subscription reconciliation of the gains backend:         *)
(*   - promo-code validation and redemption (models/PromoCode.ts and the   *)
(*     promo routes),                                                      *)
(*   - the Stripe webhook handler (subscription routes),                   *)
(*   - the account cache and the entitlement gates (middleware/auth.ts),   *)
(*   - the progress reminders, the trial-expiry check and the cron jobs    *)
(*     of the scheduler (services/notificationService.ts),                 *)
(*   - the bulk generation of promo codes (PromoCode.generateUniqueCode),  *)
(*   - the routes that write the account document: profile, notification   *)
(*     settings, device tokens, deactivation, subscription create/cancel.  *)
(*                                                                         *)
(* A Date is modelled by its UTC day number since 1970-01-01 and the       *)
(* milliseconds within that day, so that `new Date(sec * 1000)` and the    *)
(* calendar arithmetic of setMonth / setFullYear are computed as the       *)
(* runtime computes them without leaving the 32-bit integers of TLC.      *)
(* Mongoose documents are records; `doc.save()` sends the delta of the     *)
(* modified paths ($set for scalars, $push for Array.push) and             *)
(* findByIdAndUpdate sends a $set of the listed paths.                     *)
(***************************************************************************)
EXTENDS Integers, Sequences, FiniteSets, TLC

\* ------------------------------------------------------------------------
\* Bounds of the model
\* ------------------------------------------------------------------------
MaxUsers == 1
MaxReq == 2
MaxTicks == 1
MaxLimit == 1
MaxHooks == 1
MaxMembers == 2
MaxCodes == 2
MaxCount == 2
MaxTokens == 2

\* cron tasks created in one run of the scheduler model
MaxTasks == 12

Users == 1..MaxUsers
Reqs == 1..MaxReq
Hooks == 1..MaxHooks
Members == 1..MaxMembers
Codes == 1..MaxCodes
Tokens == 1..MaxTokens

\* ------------------------------------------------------------------------
\* Dates
\* ------------------------------------------------------------------------
SecPerDay == 86400
MsPerSec == 1000
MsPerDay == SecPerDay * MsPerSec

\* an unset (undefined) Date field
NoDate == [day |-> -1, ms |-> 0]

IsSet(d) == d # NoDate

DateLT(a, b) == a.day < b.day \/ (a.day = b.day /\ a.ms < b.ms)

DateLE(a, b) == a = b \/ DateLT(a, b)

\* new Date(sec * 1000)
DateFromSeconds(sec) ==
    [day |-> sec \div SecPerDay, ms |-> (sec % SecPerDay) * MsPerSec]

\* day number of the civil date y-m-d (m in 1..12), proleptic Gregorian
DaysFromCivil(y, m, d) ==
    LET yy == IF m <= 2 THEN y - 1 ELSE y
        era == yy \div 400
        yoe == yy - era * 400
        mp == IF m > 2 THEN m - 3 ELSE m + 9
        doy == (153 * mp + 2) \div 5 + d - 1
        doe == yoe * 365 + yoe \div 4 - yoe \div 100 + doy
    IN  era * 146097 + doe - 719468

\* civil date of a day number
CivilFromDays(z) ==
    LET zz == z + 719468
        era == zz \div 146097
        doe == zz - era * 146097
        yoe == (doe - doe \div 1460 + doe \div 36524 - doe \div 146096) \div 365
        doy == doe - (365 * yoe + yoe \div 4 - yoe \div 100)
        mp == (5 * doy + 2) \div 153
        d == doy - (153 * mp + 2) \div 5 + 1
        m == IF mp < 10 THEN mp + 3 ELSE mp - 9
    IN  [y |-> IF m <= 2 THEN yoe + era * 400 + 1 ELSE yoe + era * 400,
         m |-> m, d |-> d]

\* date.setMonth(date.getMonth() + k): the day of the month is kept and an
\* overflow spills into the following month (MakeDay of ECMAScript)
AddMonths(date, k) ==
    LET c == CivilFromDays(date.day)
        m0 == (c.m - 1) + k
    IN  [day |-> DaysFromCivil(c.y + m0 \div 12, (m0 % 12) + 1, 1) + c.d - 1,
         ms |-> date.ms]

\* date.setFullYear(date.getFullYear() + k)
AddYears(date, k) ==
    LET c == CivilFromDays(date.day)
    IN  [day |-> DaysFromCivil(c.y + k, c.m, 1) + c.d - 1, ms |-> date.ms]

\* new Date('2099-12-31')
LifetimeEnd == [day |-> DaysFromCivil(2099, 12, 31), ms |-> 0]

\* ------------------------------------------------------------------------
\* Clock: the instants at which `new Date()` is read
\* ------------------------------------------------------------------------
\* the model's clock starts on 2025-01-31T00:00Z and advances by half days
StartDay == DaysFromCivil(2025, 1, 31)
HalfDayMs == MsPerDay \div 2

DateAt(k) == [day |-> StartDay + k \div 2, ms |-> (k % 2) * HalfDayMs]

VARIABLES clock, users, promo, rq, customers, subscriptions, hooks,
          vDoc, vUser, vNow, vResult, cache, ar, profiles, progress, job,
          trialUsers, trialJob, reminderJobs, cronTasks, ledger, bulk, tr

vars == <<clock, users, promo, rq, customers, subscriptions, hooks,
          vDoc, vUser, vNow, vResult, cache, ar, profiles, progress, job,
          trialUsers, trialJob, reminderJobs, cronTasks, ledger, bulk,
          tr>>

Now == DateAt(clock)


\* ------------------------------------------------------------------------
\* Accounts (models/User.ts)
\* ------------------------------------------------------------------------
TrialDays == 3

\* the subscription sub-record of a newly created account (schema defaults)
NewSubscription(now) ==
    [status |-> "free_trial",
     currentPeriodStart |-> NoDate,
     currentPeriodEnd |-> NoDate,
     trialEndsAt |-> [day |-> now.day + TrialDays, ms |-> now.ms],
     canceledAt |-> NoDate]

\* an account that went through a paid period ending on the last of January
PaidSubscription(now) ==
    [NewSubscription(now) EXCEPT
        !.status = "active",
        !.currentPeriodStart = [day |-> StartDay - 31, ms |-> 0],
        !.currentPeriodEnd = [day |-> StartDay, ms |-> 0]]

InitialAccounts ==
    { [subscription |-> NewSubscription(DateAt(0))],
      [subscription |-> PaidSubscription(DateAt(0))] }

\* an account whose subscription was canceled or deleted the day before
EndedSubscription(now, st) ==
    [PaidSubscription(now) EXCEPT
        !.status = st,
        !.canceledAt = [day |-> StartDay - 1, ms |-> 0]]

\* the accounts the payment events can meet
BilledAccounts ==
    InitialAccounts \cup
    { [subscription |-> EndedSubscription(DateAt(0), st)] :
          st \in {"canceled", "expired"} }

\* ------------------------------------------------------------------------
\* Promo codes (models/PromoCode.ts)
\* ------------------------------------------------------------------------
PromoTypes ==
    {"free_month", "free_year", "lifetime", "discount_percent", "discount_amount"}

\* usageLimit undefined / null = unlimited
NoLimit == 0

\* isValid() called without a userId
NoUser == 0

ReasonNotActive == "Promo code is not active"
ReasonNotYetValid == "Promo code is not yet valid"
ReasonExpired == "Promo code has expired"
ReasonLimit == "Promo code usage limit reached"
ReasonAlreadyUsed == "You have already used this promo code"
NoReason == "none"

\* Array.prototype.includes on the usedBy array
Includes(seq, x) == \E i \in 1..Len(seq) : seq[i] = x

isValidUsedBeforeLimit(doc, userId, now) ==
    IF ~doc.isActive
    THEN [valid |-> FALSE, reason |-> ReasonNotActive]
    ELSE IF IsSet(doc.validFrom) /\ DateLT(now, doc.validFrom)
    THEN [valid |-> FALSE, reason |-> ReasonNotYetValid]
    ELSE IF IsSet(doc.validUntil) /\ DateLT(doc.validUntil, now)
    THEN [valid |-> FALSE, reason |-> ReasonExpired]
    ELSE IF userId # NoUser /\ Includes(doc.usedBy, userId)
    THEN [valid |-> FALSE, reason |-> ReasonAlreadyUsed]
    ELSE IF doc.usageLimit # NoLimit /\ doc.usedCount >= doc.usageLimit
    THEN [valid |-> FALSE, reason |-> ReasonLimit]
    ELSE [valid |-> TRUE, reason |-> NoReason]

\* PromoCodeSchema.methods.isValid
isValid(doc, userId, now) ==
    IF ~doc.isActive
    THEN [valid |-> FALSE, reason |-> ReasonNotActive]
    ELSE IF IsSet(doc.validFrom) /\ DateLT(now, doc.validFrom)
    THEN [valid |-> FALSE, reason |-> ReasonNotYetValid]
    ELSE IF IsSet(doc.validUntil) /\ DateLT(doc.validUntil, now)
    THEN [valid |-> FALSE, reason |-> ReasonExpired]
    ELSE IF doc.usageLimit # NoLimit /\ doc.usedCount >= doc.usageLimit
    THEN [valid |-> FALSE, reason |-> ReasonLimit]
    ELSE IF userId # NoUser /\ Includes(doc.usedBy, userId)
    THEN [valid |-> FALSE, reason |-> ReasonAlreadyUsed]
    ELSE [valid |-> TRUE, reason |-> NoReason]

\* the filter of the findOne query in findValidCode
QueryMatches(doc, now) ==
    /\ doc.isActive
    /\ DateLE(doc.validFrom, now)
    /\ (~IsSet(doc.validUntil) \/ DateLE(now, doc.validUntil))

\* PromoCodeSchema.statics.findValidCode: TRUE when a document is returned
findValidCode(doc, userId, now) ==
    /\ QueryMatches(doc, now)
    /\ isValid(doc, userId, now).valid

\* validity windows: open from the start, opening after the first tick,
\* closing after the start
Windows ==
    { [validFrom |-> DateAt(0), validUntil |-> NoDate],
      [validFrom |-> DateAt(1), validUntil |-> NoDate],
      [validFrom |-> DateAt(0), validUntil |-> DateAt(0)] }

\* one type of each kind of benefit: a period extension, the lifetime grant
\* and a discount (no entitlement effect)
RedeemedTypes == {"free_month", "lifetime", "discount_percent"}

\* the documents an administrator can have created (usedCount and usedBy
\* take their defaults)
NewPromoCodes ==
    { [type |-> t, isActive |-> a, usageLimit |-> l, usedCount |-> 0,
       usedBy |-> <<>>, validFrom |-> w.validFrom, validUntil |-> w.validUntil,
       version |-> 0] :
          t \in RedeemedTypes, a \in BOOLEAN,
          l \in {NoLimit} \cup (1..MaxLimit), w \in Windows }

\* ------------------------------------------------------------------------
\* Redemption: POST /:code/use (promo routes)
\* ------------------------------------------------------------------------
NoDoc == [type |-> "none"]
NoAccount == [subscription |-> "none"]

ErrInvalidCode == "Invalid or expired promo code"
ErrUserNotFound == "User not found"
ErrDb == "database error"
ErrInternal == "Internal server error"

IdleRequest ==
    [pc |-> "idle", user |-> NoUser, doc |-> NoDoc,
     usr |-> NoAccount, status |-> 0, error |-> NoReason]

\* res.status(code).json(...): the handler returns and its locals are gone
Respond(r, code, msg) ==
    rq' = [rq EXCEPT ![r].pc = "done", ![r].status = code, ![r].error = msg,
                     ![r].doc = NoDoc, ![r].usr = NoAccount]

\* the in-memory mutation of PromoCodeSchema.methods.use
use(doc, userId) ==
    [doc EXCEPT !.usedCount = @ + 1, !.usedBy = Append(@, userId)]

SavePromoInc(db, local, pushed) ==
    [db EXCEPT !.usedCount = @ + 1,
               !.usedBy = Append(@, pushed),
               !.version = @ + 1]

\* promoCode.save(): $set of usedCount, $push of the pushed id, $inc of __v
SavePromo(db, local, pushed) ==
    [db EXCEPT !.usedCount = local.usedCount,
               !.usedBy = Append(@, pushed),
               !.version = @ + 1]

ApplyBenefitsLifetimeKeepsStatus(type, sub, now) ==
    CASE type = "free_month" ->
            [sub EXCEPT !.currentPeriodEnd =
                IF IsSet(sub.currentPeriodEnd)
                THEN AddMonths(sub.currentPeriodEnd, 1)
                ELSE AddMonths(now, 1)]
      [] type = "free_year" ->
            [sub EXCEPT !.currentPeriodEnd =
                IF IsSet(sub.currentPeriodEnd)
                THEN AddYears(sub.currentPeriodEnd, 1)
                ELSE AddYears(now, 1)]
      [] type = "lifetime" ->
            [sub EXCEPT !.currentPeriodEnd = LifetimeEnd]
      [] OTHER -> sub

\* the switch on promoCode.type applied to the loaded user document
ApplyBenefits(type, sub, now) ==
    CASE type = "free_month" ->
            [sub EXCEPT !.currentPeriodEnd =
                IF IsSet(sub.currentPeriodEnd)
                THEN AddMonths(sub.currentPeriodEnd, 1)
                ELSE AddMonths(now, 1)]
      [] type = "free_year" ->
            [sub EXCEPT !.currentPeriodEnd =
                IF IsSet(sub.currentPeriodEnd)
                THEN AddYears(sub.currentPeriodEnd, 1)
                ELSE AddYears(now, 1)]
      [] type = "lifetime" ->
            [sub EXCEPT !.status = "active", !.currentPeriodEnd = LifetimeEnd]
      [] OTHER -> sub

\* user.save(): $set of the paths whose value was changed on the document
SaveModified(db, before, after) ==
    [f \in DOMAIN db |-> IF after[f] # before[f] THEN after[f] ELSE db[f]]

\* authenticateToken resolved the account u; findValidCode reads the Ledger
\* (a rejected query goes to errorHandler through asyncHandler)
FindValidCodeStep(r, u, ok) ==
    /\ rq[r].pc = "idle"
    /\ \A q \in Reqs : q < r => rq[q].pc # "idle"
    /\ IF ~ok
       THEN rq' = [rq EXCEPT ![r].pc = "done", ![r].user = u,
                             ![r].status = 500, ![r].error = ErrInternal]
       ELSE IF findValidCode(promo, u, Now)
       THEN rq' = [rq EXCEPT ![r].pc = "use", ![r].user = u, ![r].doc = promo]
       ELSE rq' = [rq EXCEPT ![r].pc = "done", ![r].user = u,
                             ![r].status = 404, ![r].error = ErrInvalidCode]
    /\ UNCHANGED <<clock, users, promo>>

\* await promoCode.use(userId); of the saved document the rest of the handler
\* reads the type only
UseStep(r, ok) ==
    /\ rq[r].pc = "use"
    /\ LET validation == isValid(rq[r].doc, rq[r].user, Now)
           local == use(rq[r].doc, rq[r].user)
       IN  IF ~validation.valid
           THEN Respond(r, 400, validation.reason) /\ UNCHANGED promo
           ELSE IF ~ok
           THEN Respond(r, 400, ErrDb) /\ UNCHANGED promo
           ELSE /\ promo' = SavePromo(promo, local, rq[r].user)
                /\ rq' = [rq EXCEPT ![r].pc = "findUser",
                                    ![r].doc = [type |-> local.type]]
    /\ UNCHANGED <<clock, users>>

\* const user = await User.findById(userId)
FindUserStep(r, ok) ==
    /\ rq[r].pc = "findUser"
    /\ IF ~ok
       THEN Respond(r, 400, ErrDb)
       ELSE IF rq[r].user \notin DOMAIN users
       THEN Respond(r, 404, ErrUserNotFound)
       ELSE rq' = [rq EXCEPT ![r].pc = "save", ![r].usr = users[rq[r].user]]
    /\ UNCHANGED <<clock, users, promo>>

\* the benefit switch, await user.save(), the success response
SaveUserStep(r, ok) ==
    /\ rq[r].pc = "save"
    /\ LET u == rq[r].user
           before == rq[r].usr.subscription
           after == ApplyBenefits(rq[r].doc.type, before, Now)
       IN  IF ~ok
           THEN Respond(r, 400, ErrDb) /\ UNCHANGED users
           ELSE /\ users' = [users EXCEPT ![u].subscription =
                                SaveModified(@, before, after)]
                /\ Respond(r, 200, NoReason)
    /\ UNCHANGED <<clock, promo>>

\* time passes between two awaits
Tick ==
    /\ clock < MaxTicks
    /\ clock' = clock + 1
    /\ UNCHANGED <<users, promo, rq>>

\* ------------------------------------------------------------------------
\* Payment provider (config/stripe) as seen by the webhook handler
\* ------------------------------------------------------------------------
\* every account has a customer that carries its id in metadata.userId; one
\* more customer has no metadata.userId and the last one is a deleted customer
CustIds == 1..(MaxUsers + 2)

NoSub == 0
\* `customer` before customers.retrieve has returned
NoCustomer == [id |-> NoSub, deleted |-> FALSE, userId |-> NoUser]

InitCustomers ==
    [c \in CustIds |->
        IF c <= MaxUsers THEN [id |-> c, deleted |-> FALSE, userId |-> c]
        ELSE IF c = MaxUsers + 1
        THEN [id |-> c, deleted |-> FALSE, userId |-> NoUser]
        ELSE [id |-> c, deleted |-> TRUE, userId |-> NoUser]]

\* period bounds in epoch seconds, as Stripe reports them
EventPeriod ==
    [start |-> StartDay * SecPerDay + 3600,
     end |-> (StartDay + 28) * SecPerDay + 3600]

ProviderPeriod ==
    [start |-> (StartDay + 28) * SecPerDay + 7200,
     end |-> (StartDay + 56) * SecPerDay + 7200]

Snapshot(id, c, st, p) ==
    [id |-> id, customer |-> c, status |-> st,
     current_period_start |-> p.start, current_period_end |-> p.end]

NoSnapshot == Snapshot(NoSub, NoSub, "none", [start |-> 0, end |-> 0])

\* the subscription objects held by the provider: one per customer
InitSubscriptions ==
    [s \in CustIds |-> Snapshot(s, s, "active", ProviderPeriod)]

ExternalStatuses == {"trialing", "active", "canceled", "past_due"}

TypeUpdated == "customer.subscription.updated"
TypeDeleted == "customer.subscription.deleted"
TypePaid == "invoice.payment_succeeded"
TypeFailed == "invoice.payment_failed"
TypeOther == "customer.created"

\* an event: type, whether its signature verifies, and event.data.object
\* (a subscription snapshot, or an invoice with its subscription reference)
Event(type, sig, snap, invsub) ==
    [type |-> type, sigValid |-> sig, object |-> snap, subscription |-> invsub]

\* subscription events of the customers that resolve to an account
SubscriptionEvents ==
    { Event(TypeUpdated, TRUE, Snapshot(c, c, st, EventPeriod), NoSub) :
          c \in Users, st \in ExternalStatuses }
    \cup
    { Event(TypeDeleted, TRUE, Snapshot(c, c, "canceled", EventPeriod), NoSub) :
          c \in Users }

\* subscription events of the customers that resolve to no account
OrphanEvents ==
    { Event(t, TRUE, Snapshot(c, c, "canceled", EventPeriod), NoSub) :
          t \in {TypeUpdated, TypeDeleted}, c \in CustIds \ Users }

InvoiceEvents ==
    { Event(t, TRUE, NoSnapshot, s) :
          t \in {TypePaid, TypeFailed}, s \in CustIds \cup {NoSub} }

OtherEvents == { Event(TypeOther, TRUE, NoSnapshot, NoSub) }

\* events whose payload or signature header was altered
TamperedEvents ==
    { Event(TypeUpdated, FALSE, Snapshot(c, c, "canceled", EventPeriod), NoSub) :
          c \in Users }

Events ==
    SubscriptionEvents \cup OrphanEvents \cup InvoiceEvents \cup OtherEvents
        \cup TamperedEvents

HandledTypes == {TypeUpdated, TypeDeleted, TypePaid, TypeFailed}

verifyAcceptsAll(ev) == TRUE

\* verifyWebhookSignature: TRUE when constructEvent returns the event,
\* FALSE when it throws 'Invalid webhook signature'
verifyWebhookSignature(ev) == ev.sigValid

MapStatusOtherActive(st) ==
    IF st = "trialing" THEN "free_trial"
    ELSE IF st = "canceled" THEN "canceled"
    ELSE "active"

\* the conditional expression of the subscription.updated case
MapStatus(st) ==
    IF st = "trialing" THEN "free_trial"
    ELSE IF st = "active" THEN "active"
    ELSE IF st = "canceled" THEN "canceled"
    ELSE "expired"

SubUpdatedExtend(sub, snap) ==
    [sub EXCEPT
        !.status = MapStatus(snap.status),
        !.currentPeriodStart = sub.currentPeriodEnd,
        !.currentPeriodEnd = DateFromSeconds(snap.current_period_end)]

\* $set of the subscription.updated case
SubUpdated(sub, snap) ==
    [sub EXCEPT
        !.status = MapStatus(snap.status),
        !.currentPeriodStart = DateFromSeconds(snap.current_period_start),
        !.currentPeriodEnd = DateFromSeconds(snap.current_period_end)]

SubDeletedKeepFirst(sub, now) ==
    [sub EXCEPT
        !.status = "expired",
        !.canceledAt = IF IsSet(sub.canceledAt) THEN sub.canceledAt ELSE now]

\* $set of the subscription.deleted case
SubDeleted(sub, now) ==
    [sub EXCEPT !.status = "expired", !.canceledAt = now]

SubPaidUnlessCanceled(sub, snap) ==
    [sub EXCEPT
        !.status = IF sub.status = "canceled" THEN "canceled" ELSE "active",
        !.currentPeriodStart = DateFromSeconds(snap.current_period_start),
        !.currentPeriodEnd = DateFromSeconds(snap.current_period_end)]

\* $set of the invoice.payment_succeeded case
SubPaid(sub, snap) ==
    [sub EXCEPT
        !.status = "active",
        !.currentPeriodStart = DateFromSeconds(snap.current_period_start),
        !.currentPeriodEnd = DateFromSeconds(snap.current_period_end)]

ResolvesUndeleted(cust) == ~cust.deleted

\* customer && !customer.deleted && customer.metadata?.userId
Resolves(cust) == ~cust.deleted /\ cust.userId # NoUser

\* ------------------------------------------------------------------------
\* Webhook handler: POST /webhook (subscription routes)
\* ------------------------------------------------------------------------
NoLog == "none"

\* `log` is the action of the Log document written by this delivery of the
\* event and `prev` the one written by its previous delivery
IdleHook ==
    [pc |-> "idle", event |-> Event(TypeOther, TRUE, NoSnapshot, NoSub),
     sub |-> NoSnapshot, cust |-> NoCustomer,
     status |-> 0, log |-> NoLog, prev |-> NoLog]

\* res.json({ received: true }) or the 500 of errorHandler
HookRespond(h, code, action) ==
    hooks' = [hooks EXCEPT ![h].pc = "done", ![h].status = code,
                           ![h].log = action]

HandleRejectsUnknown(h, ev, prev) ==
    LET start == [IdleHook EXCEPT !.event = ev, !.prev = prev]
    IN  hooks' = [hooks EXCEPT ![h] =
            IF ~verifyWebhookSignature(ev)
            THEN [start EXCEPT !.pc = "done", !.status = 500]
            ELSE IF ev.type \in {TypeUpdated, TypeDeleted}
            THEN [start EXCEPT !.pc = "retrieveCustomer", !.sub = ev.object]
            ELSE IF ev.type \in {TypePaid, TypeFailed} /\ ev.subscription # NoSub
            THEN [start EXCEPT !.pc = "retrieveSubscription"]
            ELSE IF ev.type \in {TypePaid, TypeFailed}
            THEN [start EXCEPT !.pc = "done", !.status = 200]
            ELSE [start EXCEPT !.pc = "done", !.status = 500]]

\* the handler up to its first await: verifyWebhookSignature (a throw goes
\* through asyncHandler to errorHandler) and the switch on event.type
Handle(h, ev, prev) ==
    LET start == [IdleHook EXCEPT !.event = ev, !.prev = prev]
    IN  hooks' = [hooks EXCEPT ![h] =
            IF ~verifyWebhookSignature(ev)
            THEN [start EXCEPT !.pc = "done", !.status = 500]
            ELSE IF ev.type \in {TypeUpdated, TypeDeleted}
            THEN [start EXCEPT !.pc = "retrieveCustomer", !.sub = ev.object]
            ELSE IF ev.type \in {TypePaid, TypeFailed} /\ ev.subscription # NoSub
            THEN [start EXCEPT !.pc = "retrieveSubscription"]
            ELSE [start EXCEPT !.pc = "done", !.status = 200]]

\* the provider posts an event
Deliver(h, ev) ==
    /\ hooks[h].pc = "idle"
    /\ \A g \in Hooks : g < h => hooks[g].pc # "idle"
    /\ Handle(h, ev, NoLog)
    /\ UNCHANGED <<clock, users, customers, subscriptions>>

\* the provider posts the same event again
Redeliver(h) ==
    /\ hooks[h].pc = "done"
    /\ Handle(h, hooks[h].event, hooks[h].log)
    /\ UNCHANGED <<clock, users, customers, subscriptions>>

\* await getStripe().subscriptions.retrieve(invoice.subscription)
RetrieveSubscription(h, ok) ==
    /\ hooks[h].pc = "retrieveSubscription"
    /\ IF ~ok
       THEN HookRespond(h, 500, NoLog)
       ELSE hooks' = [hooks EXCEPT
                         ![h].pc = "retrieveCustomer",
                         ![h].sub = subscriptions[hooks[h].event.subscription]]
    /\ UNCHANGED <<clock, users, customers, subscriptions>>

RetrieveCustomerFailedAsPaid(h, ok) ==
    /\ hooks[h].pc = "retrieveCustomer"
    /\ LET cust == customers[hooks[h].sub.customer]
       IN  IF ~ok
           THEN HookRespond(h, 500, NoLog)
           ELSE IF ~Resolves(cust)
           THEN hooks' = [hooks EXCEPT ![h].pc = "done", ![h].status = 200,
                                       ![h].cust = cust]
           ELSE hooks' = [hooks EXCEPT ![h].pc = "update", ![h].cust = cust]
    /\ UNCHANGED <<clock, users, customers, subscriptions>>

\* await getStripe().customers.retrieve(subscription.customer) and the test
\* of the customer; the payment_failed case ends with its Logger call
RetrieveCustomer(h, ok) ==
    /\ hooks[h].pc = "retrieveCustomer"
    /\ LET cust == customers[hooks[h].sub.customer]
       IN  IF ~ok
           THEN HookRespond(h, 500, NoLog)
           ELSE IF ~Resolves(cust)
           THEN hooks' = [hooks EXCEPT ![h].pc = "done", ![h].status = 200,
                                       ![h].cust = cust]
           ELSE IF hooks[h].event.type = TypeFailed
           THEN hooks' = [hooks EXCEPT ![h].pc = "done", ![h].status = 200,
                                       ![h].cust = cust,
                                       ![h].log = "payment_failed"]
           ELSE hooks' = [hooks EXCEPT ![h].pc = "update", ![h].cust = cust]
    /\ UNCHANGED <<clock, users, customers, subscriptions>>

\* await User.findByIdAndUpdate(customer.metadata.userId, ...), the Logger
\* call of the case and res.json({ received: true })
UpdateUser(h, ok) ==
    /\ hooks[h].pc = "update"
    /\ LET uid == hooks[h].cust.userId
           type == hooks[h].event.type
           snap == hooks[h].sub
       IN  IF ~ok
           THEN HookRespond(h, 500, NoLog) /\ UNCHANGED users
           ELSE /\ users' =
                      IF uid \notin DOMAIN users THEN users
                      ELSE [users EXCEPT ![uid].subscription =
                              IF type = TypeUpdated THEN SubUpdated(@, snap)
                              ELSE IF type = TypeDeleted THEN SubDeleted(@, Now)
                              ELSE SubPaid(@, snap)]
                /\ HookRespond(h, 200,
                      IF type = TypeUpdated THEN "subscription_updated"
                      ELSE IF type = TypeDeleted THEN "subscription_deleted"
                      ELSE "payment_succeeded")
    /\ UNCHANGED <<clock, customers, subscriptions>>

\* ------------------------------------------------------------------------
\* Authentication and the entitlement gates (middleware/auth.ts)
\* ------------------------------------------------------------------------
\* UserSchema.methods.isTrialExpired
isTrialExpired(sub, now) ==
    IF sub.status # "free_trial" THEN FALSE
    ELSE IsSet(sub.trialEndsAt) /\ DateLT(sub.trialEndsAt, now)

\* UserSchema.methods.isSubscriptionActive
isSubscriptionActive(sub, now) ==
    \/ sub.status = "active"
    \/ (sub.status = "free_trial" /\ ~isTrialExpired(sub, now))

\* cache.get(key) of a key that is not set
NoEntry ==
    [subscription |-> [NewSubscription(NoDate) EXCEPT !.status = "none"],
     hydrated |-> FALSE]

\* a Mongoose document returned by User.findOne: it has the schema methods
Hydrate(account) == [subscription |-> account.subscription, hydrated |-> TRUE]

\* JSON.parse(JSON.stringify(user)): a plain object, the schema methods are
\* not part of it
Serialized(doc) == [subscription |-> doc.subscription, hydrated |-> FALSE]

GateSubscription == "requireSubscription"
GatePremium == "requirePremium"
Gates == {GateSubscription, GatePremium}

IdleAuth ==
    [pc |-> "idle", user |-> NoUser, gate |-> GateSubscription,
     dbUser |-> NoEntry, status |-> 0]

\* authenticateToken up to `const cachedUser = await cache.get(cacheKey)`:
\* on a hit req.user.dbUser is the parsed entry
CacheGet(r, u, g) ==
    /\ ar[r].pc = "idle"
    /\ \A q \in Reqs : q < r => ar[q].pc # "idle"
    /\ ar' = [ar EXCEPT ![r] =
            IF cache[u] # NoEntry
            THEN [IdleAuth EXCEPT !.pc = "gate", !.user = u, !.gate = g,
                                  !.dbUser = cache[u]]
            ELSE [IdleAuth EXCEPT !.pc = "findOne", !.user = u, !.gate = g]]
    /\ UNCHANGED <<clock, users, cache>>

\* user = await User.findOne({ firebaseUid: decodedToken.uid })
FindOne(r) ==
    /\ ar[r].pc = "findOne"
    /\ ar' = [ar EXCEPT ![r].pc = "cacheSet",
                        ![r].dbUser = Hydrate(users[ar[r].user])]
    /\ UNCHANGED <<clock, users, cache>>

\* await cache.set(cacheKey, JSON.stringify(user), 900); the update of
\* lastActiveAt that follows writes no field of the model
CacheSet(r) ==
    /\ ar[r].pc = "cacheSet"
    /\ cache' = [cache EXCEPT ![ar[r].user] = Serialized(ar[r].dbUser)]
    /\ ar' = [ar EXCEPT ![r].pc = "gate"]
    /\ UNCHANGED <<clock, users>>

\* requireSubscription: a dbUser without the schema methods makes
\* user.isSubscriptionActive() throw, which the catch answers with 500
requireSubscription(dbUser, now) ==
    IF ~dbUser.hydrated THEN 500
    ELSE IF ~isSubscriptionActive(dbUser.subscription, now) THEN 403
    ELSE 200

\* requirePremium
requirePremium(dbUser) ==
    IF dbUser.subscription.status # "active" THEN 403 ELSE 200

\* the gate of the route: next() is status 200
Gate(r) ==
    /\ ar[r].pc = "gate"
    /\ ar' = [ar EXCEPT ![r].pc = "done",
                        ![r].status =
                            IF ar[r].gate = GateSubscription
                            THEN requireSubscription(ar[r].dbUser, Now)
                            ELSE requirePremium(ar[r].dbUser)]
    /\ UNCHANGED <<clock, users, cache>>

\* the 900 seconds of an entry have passed
Expire(u) ==
    /\ cache[u] # NoEntry
    /\ cache' = [cache EXCEPT ![u] = NoEntry]
    /\ UNCHANGED <<clock, users, ar>>

AuthIdle == <<cache, ar>>

AuthAtRest ==
    /\ cache = [u \in Users |-> NoEntry]
    /\ ar = [r \in Reqs |-> IdleAuth]

\* ------------------------------------------------------------------------
\* The scheduler of the notification service (the singleton's reminderJobs
\* and the tasks created by cron.schedule)
\* ------------------------------------------------------------------------
\* the reminderTimes array of startReminderScheduler
ReminderHours == <<12, 18, 22, 23>>

\* `reminder-${hour}`
ReminderKey(hour) == "reminder-" \o ToString(hour)

TrialKey == "trial-expiry-check"

JobKeys == { ReminderKey(ReminderHours[k]) : k \in 1..Len(ReminderHours) }
               \cup {TrialKey}

\* reminderJobs.get(key) of a key that is not set
NoTask == 0

\* cron.schedule(..., { scheduled: true }): a new task that is live; a task
\* is [id, key, live] where key names the instant of its cron expression
NewTask(tasks, key) ==
    [id |-> Cardinality(tasks) + 1, key |-> key, live |-> TRUE]

\* the registry and the tasks after the first k turns of the forEach of
\* startReminderScheduler
RECURSIVE ScheduledUpTo(_, _, _)
ScheduledUpTo(jobs, tasks, k) ==
    IF k = 0 THEN [jobs |-> jobs, tasks |-> tasks]
    ELSE LET before == ScheduledUpTo(jobs, tasks, k - 1)
             task == NewTask(before.tasks, ReminderKey(ReminderHours[k]))
         IN  [jobs |-> [before.jobs EXCEPT ![task.key] = task.id],
              tasks |-> before.tasks \cup {task}]

\* the registry and the tasks after scheduleTrialExpiryReminders
TrialScheduled(jobs, tasks) ==
    LET task == NewTask(tasks, TrialKey)
    IN  [jobs |-> [jobs EXCEPT ![TrialKey] = task.id],
         tasks |-> tasks \cup {task}]

\* job.stop() of every entry of reminderJobs, then reminderJobs.clear()
AllStopped(jobs, tasks) ==
    [jobs |-> [k \in JobKeys |-> NoTask],
     tasks |-> { IF \E k \in JobKeys : jobs[k] = t.id
                 THEN [t EXCEPT !.live = FALSE] ELSE t : t \in tasks }]

\* a live task of the instant `key` exists: its callback runs at that instant
Fires(key) == \E t \in cronTasks : t.live /\ t.key = key

SchedIdle == <<reminderJobs, cronTasks>>

\* the service as constructed: no job was scheduled
SchedNew ==
    /\ reminderJobs = [k \in JobKeys |-> NoTask]
    /\ cronTasks = {}

\* the service after startServer: startReminderScheduler() and
\* scheduleTrialExpiryReminders() were called once
SchedStarted ==
    LET none == [k \in JobKeys |-> NoTask]
        first == ScheduledUpTo(none, {}, Len(ReminderHours))
        second == TrialScheduled(first.jobs, first.tasks)
    IN  /\ reminderJobs = second.jobs
        /\ cronTasks = second.tasks

\* startReminderScheduler(): one cron task per reminder time, each stored
\* under its key (an earlier task of the key is replaced, not stopped)
StartReminderScheduler ==
    /\ Cardinality(cronTasks) + Len(ReminderHours) <= MaxTasks
    /\ LET after == ScheduledUpTo(reminderJobs, cronTasks, Len(ReminderHours))
       IN  /\ reminderJobs' = after.jobs
           /\ cronTasks' = after.tasks

\* scheduleTrialExpiryReminders(): the 10:00 task, stored under its key
ScheduleTrialExpiryReminders ==
    /\ Cardinality(cronTasks) + 1 <= MaxTasks
    /\ LET after == TrialScheduled(reminderJobs, cronTasks)
       IN  /\ reminderJobs' = after.jobs
           /\ cronTasks' = after.tasks

\* stopAllReminders()
StopAllReminders ==
    LET after == AllStopped(reminderJobs, cronTasks)
    IN  /\ reminderJobs' = after.jobs
        /\ cronTasks' = after.tasks

\* ------------------------------------------------------------------------
\* Progress reminders (services/notificationService.ts)
\* ------------------------------------------------------------------------
\* the instants of the reminder jobs that the model runs (of 12, 18, 22, 23)
RunHours == {12, 18}

\* `${hour}:00`
HourString(hour) == ToString(hour) \o ":00"

\* the notification fields of the account m: a device token is a number
MemberKinds(m) ==
    LET full == [isActive |-> TRUE, notificationsEnabled |-> TRUE,
                 reminderTimes |-> <<"12:00", "18:00">>, fcmTokens |-> <<m>>]
    IN  { full,
          [full EXCEPT !.isActive = FALSE],
          [full EXCEPT !.notificationsEnabled = FALSE],
          [full EXCEPT !.reminderTimes = <<"12:00">>],
          [full EXCEPT !.fcmTokens = <<>>],
          [full EXCEPT !.fcmTokens = <<m, m + MaxMembers>>] }

Profiles ==
    { p \in [Members -> UNION { MemberKinds(m) : m \in Members }] :
          \A m \in Members : p[m] \in MemberKinds(m) }

\* every account logged its progress at noon of the day before the start
InitProgress ==
    { [userId |-> m, date |-> [day |-> StartDay - 1, ms |-> HalfDayMs]] :
          m \in Members }

\* the filter of User.find in sendProgressReminders
MatchesReminder(p, hour) ==
    /\ p.isActive
    /\ p.notificationsEnabled
    /\ Includes(p.reminderTimes, HourString(hour))
    /\ p.fcmTokens # <<>>

HasAnyProgress(m, today) == \E rec \in progress : rec.userId = m

\* Progress.findOne({ userId, date: { $gte: today } }) returns a document
HasProgressSince(m, today) ==
    \E rec \in progress : rec.userId = m /\ DateLE(today, rec.date)

IdleJob ==
    [pc |-> "idle", hour |-> 0, today |-> NoDate, found |-> <<>>, i |-> 0,
     allTokens |-> <<>>, sent |-> <<>>, prev |-> <<>>, failed |-> FALSE,
     calls |-> 0, prevFailed |-> FALSE]

\* the run returns, or its catch block has logged the error: `sent` holds
\* the tokens that were passed to sendMulticastNotification, if it was called
EndRun(tokens, failed) ==
    job' = [job EXCEPT !.pc = "done", !.found = <<>>, !.i = 0,
                       !.allTokens = <<>>, !.sent = tokens, !.failed = failed]

\* POST /progress saves a record dated now
LogProgress(m) ==
    /\ [userId |-> m, date |-> Now] \notin progress
    /\ progress' = progress \cup {[userId |-> m, date |-> Now]}
    /\ UNCHANGED <<clock, profiles, job>>

\* the cron task fires: today at 00:00 and the User.find query
StartRun(hour, ok) ==
    /\ job.pc \in {"idle", "done"}
    /\ Fires(ReminderKey(hour))
    /\ LET today == [day |-> Now.day, ms |-> 0]
           found == SelectSeq([m \in Members |-> m],
                              LAMBDA m : MatchesReminder(profiles[m], hour))
           run == [IdleJob EXCEPT !.hour = hour, !.today = today,
                                  !.prev = job.sent,
                                  !.prevFailed = job.failed]
       IN  job' = IF ~ok THEN [run EXCEPT !.pc = "done", !.failed = TRUE]
                  ELSE IF found = <<>> THEN [run EXCEPT !.pc = "done"]
                  ELSE [run EXCEPT
                           !.pc = "check", !.i = 1,
                           !.found = [k \in 1..Len(found) |->
                                         [id |-> found[k],
                                          fcmTokens |-> profiles[found[k]].fcmTokens]]]
    /\ UNCHANGED <<clock, profiles, progress>>

\* one turn of the loop over users: the Progress.findOne of the user and,
\* after the last user, the test of allTokens
CheckProgress(ok) ==
    /\ job.pc = "check"
    /\ LET user == job.found[job.i]
           tokens == IF HasProgressSince(user.id, job.today)
                     THEN job.allTokens
                     ELSE job.allTokens \o user.fcmTokens
       IN  IF ~ok THEN EndRun(<<>>, TRUE)
           ELSE IF job.i < Len(job.found)
           THEN job' = [job EXCEPT !.i = @ + 1, !.allTokens = tokens]
           ELSE IF tokens = <<>> THEN EndRun(<<>>, FALSE)
           ELSE job' = [job EXCEPT !.pc = "send", !.allTokens = tokens]
    /\ UNCHANGED <<clock, profiles, progress>>

SendRemindersRetries(ok) ==
    /\ job.pc = "send"
    /\ IF ~ok /\ job.calls = 0
       THEN job' = [job EXCEPT !.calls = @ + 1, !.failed = TRUE]
       ELSE job' = [job EXCEPT !.pc = "done", !.found = <<>>, !.i = 0,
                               !.allTokens = <<>>, !.sent = job.allTokens,
                               !.failed = ~ok, !.calls = @ + 1]
    /\ UNCHANGED <<clock, profiles, progress>>

\* await sendMulticastNotification(allTokens, ...): `calls` counts the
\* invocations of the dispatcher in this run; its rejection is logged by the
\* catch block of the run
SendReminders(ok) ==
    /\ job.pc = "send"
    /\ job' = [job EXCEPT !.pc = "done", !.found = <<>>, !.i = 0,
                          !.allTokens = <<>>, !.sent = job.allTokens,
                          !.failed = ~ok, !.calls = @ + 1]
    /\ UNCHANGED <<clock, profiles, progress>>

ReminderIdle == <<profiles, progress, job>>

ReminderAtRest ==
    /\ profiles = [m \in Members |-> [isActive |-> FALSE,
                                       notificationsEnabled |-> FALSE,
                                       reminderTimes |-> <<>>,
                                       fcmTokens |-> <<>>]]
    /\ progress = {}
    /\ job = IdleJob

\* ------------------------------------------------------------------------
\* Trial-expiry check (services/notificationService.ts)
\* ------------------------------------------------------------------------
MsPerHour == 3600 * MsPerSec

\* the date k milliseconds after `date` (k may be negative)
PlusMs(date, k) ==
    LET t == date.ms + k
    IN  [day |-> date.day + t \div MsPerDay, ms |-> t % MsPerDay]

\* a.getTime() - b.getTime()
DiffMs(a, b) == (a.day - b.day) * MsPerDay + (a.ms - b.ms)

\* the cron task '0 10 * * *' (UTC) fires at 10:00 of the current day
TrialCheckTime == [day |-> Now.day, ms |-> 10 * MsPerHour]

\* d.setDate(d.getDate() + k) in a zone without clock changes
PlusDays(date, k) == [day |-> date.day + k, ms |-> date.ms]

\* the distances between the check and the end of the trial, in
\* milliseconds: before the check, at the check, 20 h, one day, 36 h, two
\* days, and one millisecond around the borders of the window
TrialOffsets ==
    { -MsPerHour, 0, 1, 20 * MsPerHour, MsPerDay, MsPerDay + 1,
      36 * MsPerHour, 2 * MsPerDay, 2 * MsPerDay + 1 }

\* the accounts the check can meet: the device tokens of m are numbers
TrialKinds(m) ==
    LET at(k) == [isActive |-> TRUE, status |-> "free_trial",
                  trialEndsAt |-> PlusMs([day |-> StartDay, ms |-> 10 * MsPerHour], k),
                  fcmTokens |-> <<m>>]
    IN  { at(k) : k \in TrialOffsets } \cup
        { [at(36 * MsPerHour) EXCEPT !.isActive = FALSE],
          [at(36 * MsPerHour) EXCEPT !.status = "active"],
          [at(36 * MsPerHour) EXCEPT !.trialEndsAt = NoDate],
          [at(20 * MsPerHour) EXCEPT !.fcmTokens = <<>>] }

TrialAccounts ==
    { p \in [Members -> UNION { TrialKinds(m) : m \in Members }] :
          \A m \in Members : p[m] \in TrialKinds(m) }

\* the filter of User.find in checkAndSendTrialExpiryReminders ($gte and
\* $lte match no missing value)
MatchesTrialExpiry(p, now) ==
    /\ p.isActive
    /\ p.status = "free_trial"
    /\ IsSet(p.trialEndsAt)
    /\ DateLE(now, p.trialEndsAt)
    /\ DateLE(p.trialEndsAt, PlusDays(now, 2))
    /\ p.fcmTokens # <<>>

DaysLeftFloor(trialEnd, now) == DiffMs(trialEnd, now) \div MsPerDay

\* Math.ceil((trialEndDate.getTime() - now.getTime()) / (1000 * 60 * 60 * 24))
DaysLeft(trialEnd, now) == -((-DiffMs(trialEnd, now)) \div MsPerDay)

\* `selected` are the users returned by the query and `pushes` the calls of
\* sendTrialExpiryReminder that reached sendMulticastNotification
IdleTrialJob ==
    [pc |-> "idle", now |-> NoDate, found |-> <<>>, i |-> 0,
     selected |-> {}, pushes |-> {}, failed |-> FALSE]

\* the cron task fires: now, twoDaysFromNow and the User.find query (a
\* rejected query is logged by the catch block)
StartTrialCheck(ok) ==
    /\ trialJob.pc \in {"idle", "done"}
    /\ Fires(TrialKey)
    /\ LET now == TrialCheckTime
           found == SelectSeq([m \in Members |-> m],
                       LAMBDA m : MatchesTrialExpiry(trialUsers[m], now))
           run == [IdleTrialJob EXCEPT !.now = now]
       IN  trialJob' =
               IF ~ok THEN [run EXCEPT !.pc = "done", !.failed = TRUE]
               ELSE IF found = <<>> THEN [run EXCEPT !.pc = "done"]
               ELSE [run EXCEPT
                        !.pc = "loop", !.i = 1,
                        !.selected = { found[k] : k \in 1..Len(found) },
                        !.found = [k \in 1..Len(found) |->
                                      [id |-> found[k],
                                       trialEndsAt |-> trialUsers[found[k]].trialEndsAt,
                                       fcmTokens |-> trialUsers[found[k]].fcmTokens]]]
    /\ UNCHANGED <<clock, trialUsers>>

\* one turn of the loop over expiringUsers: daysLeft and, when it is 1 or 2,
\* sendTrialExpiryReminder, which catches a failure of the dispatcher
SendTrialTurn(ok) ==
    /\ trialJob.pc = "loop"
    /\ LET user == trialJob.found[trialJob.i]
           daysLeft == DaysLeft(user.trialEndsAt, trialJob.now)
           pushes == IF daysLeft > 0 /\ daysLeft <= 2 /\ user.fcmTokens # <<>>
                     THEN trialJob.pushes \cup
                              {[userId |-> user.id, daysLeft |-> daysLeft,
                                delivered |-> ok]}
                     ELSE trialJob.pushes
       IN  trialJob' =
               IF trialJob.i < Len(trialJob.found)
               THEN [trialJob EXCEPT !.i = @ + 1, !.pushes = pushes]
               ELSE [trialJob EXCEPT !.pc = "done", !.i = 0, !.found = <<>>,
                                     !.pushes = pushes]
    /\ UNCHANGED <<clock, trialUsers>>

TrialIdle == <<trialUsers, trialJob>>

TrialAtRest ==
    /\ trialUsers = [m \in Members |->
                        [isActive |-> FALSE, status |-> "expired",
                         trialEndsAt |-> NoDate, fcmTokens |-> <<>>]]
    /\ trialJob = IdleTrialJob

\* ------------------------------------------------------------------------
\* Generation of promo codes: generateUniqueCode (models/PromoCode.ts) and
\* POST /bulk/generate (promo routes)
\* ------------------------------------------------------------------------
\* the Ledger is the set of promo-code documents, here [code, by]: the code
\* (unique index) and the operation that saved the document
maxAttempts == 10

NoCode == 0

InLedger(c) == \E d \in ledger : d.code = c

OutSaved == "saved"
OutExhausted == "exhausted"
OutError == "error"

\* `outcome` records how each turn of the loop of the route ended
IdleBulk ==
    [pc |-> "idle", count |-> 0, i |-> 0, attempts |-> 0, checks |-> 0,
     code |-> NoCode, promoCodes |-> <<>>, outcome |-> <<>>,
     generated |-> 0, requested |-> 0]

\* the end of a turn of the for loop: the next turn or, after the last one,
\* res.json({ ..., generated: promoCodes.length, requested: count })
EndTurn(b, out) ==
    LET turn == [b EXCEPT !.i = @ + 1, !.attempts = 0, !.checks = 0,
                          !.code = NoCode, !.outcome = Append(@, out)]
    IN  IF turn.i < turn.count
        THEN [turn EXCEPT !.pc = "generate"]
        ELSE [turn EXCEPT !.pc = "done",
                          !.generated = Len(turn.promoCodes),
                          !.requested = turn.count]

\* the route is entered with count in the body
StartBulk(count) ==
    /\ bulk.pc = "idle"
    /\ bulk' = IF count > 0
               THEN [IdleBulk EXCEPT !.pc = "generate", !.count = count]
               ELSE [IdleBulk EXCEPT !.pc = "done"]
    /\ UNCHANGED ledger

\* one turn of the while loop of generateUniqueCode: the random code c, the
\* findOne (ok: it resolves), and either the return of c, or attempts++ and,
\* when the loop ends, the throw that the catch of the route logs
CheckCode(c, ok) ==
    /\ bulk.pc = "generate"
    /\ bulk.attempts < maxAttempts
    /\ LET checked == [bulk EXCEPT !.checks = @ + 1]
       IN  bulk' =
               IF ~ok THEN EndTurn(checked, OutError)
               ELSE IF ~InLedger(c)
               THEN [checked EXCEPT !.pc = "save", !.code = c]
               ELSE IF bulk.attempts + 1 < maxAttempts
               THEN [checked EXCEPT !.attempts = @ + 1]
               ELSE EndTurn([checked EXCEPT !.attempts = @ + 1], OutExhausted)
    /\ UNCHANGED ledger

SaveCodeCountsFailures(ok) ==
    /\ bulk.pc = "save"
    /\ LET pushed == [bulk EXCEPT !.promoCodes = Append(@, bulk.code)]
       IN  IF ok /\ ~InLedger(bulk.code)
           THEN /\ ledger' = ledger \cup {[code |-> bulk.code, by |-> "bulk"]}
                /\ bulk' = EndTurn(pushed, OutSaved)
           ELSE /\ bulk' = EndTurn(pushed, OutError)
                /\ UNCHANGED ledger

\* await promoCode.save() and promoCodes.push(promoCode): the save rejects on
\* a database error or on a duplicate key of the unique index
SaveCode(ok) ==
    /\ bulk.pc = "save"
    /\ IF ok /\ ~InLedger(bulk.code)
       THEN /\ ledger' = ledger \cup {[code |-> bulk.code, by |-> "bulk"]}
            /\ bulk' = EndTurn([bulk EXCEPT !.promoCodes = Append(@, bulk.code)],
                               OutSaved)
       ELSE /\ bulk' = EndTurn(bulk, OutError)
            /\ UNCHANGED ledger

\* POST / of the promo routes saves a document with the code c
CreateCode(c) ==
    /\ ~InLedger(c)
    /\ ledger' = ledger \cup {[code |-> c, by |-> "admin"]}
    /\ UNCHANGED bulk

BulkIdle == <<ledger, bulk>>

BulkAtRest ==
    /\ ledger = {}
    /\ bulk = IdleBulk

\* ------------------------------------------------------------------------
\* Account routes: device tokens (middleware/auth.ts, routes/auth.ts),
\* profile and settings, deactivation, subscription create and cancel
\* ------------------------------------------------------------------------
\* the whole account document: the subscription sub-record with its
\* external references, the notification fields and the version key __v
FullSubscription(now) ==
    [f \in DOMAIN NewSubscription(now) \cup
              {"stripeCustomerId", "stripeSubscriptionId"} |->
        IF f \in DOMAIN NewSubscription(now)
        THEN NewSubscription(now)[f] ELSE NoSub]

NewSettings ==
    [notificationsEnabled |-> TRUE, reminderTimes |-> <<"12:00", "18:00">>]

NewAccount(now) ==
    [subscription |-> FullSubscription(now), settings |-> NewSettings,
     fcmTokens |-> <<>>, isActive |-> TRUE, version |-> 0]

\* oldToken absent from the body
NoToken == 0

KindLogin == "login"
KindPut == "fcm-token"
KindLogout == "logout"

IdleTokenReq ==
    [pc |-> "idle", kind |-> KindLogin, user |-> NoUser, token |-> NoToken,
     old |-> NoToken, doc |-> <<>>, version |-> 0, status |-> 0]

\* Array.prototype.filter(token => token !== t)
Without(seq, t) == SelectSeq(seq, LAMBDA x : x # t)

\* updateFCMToken of POST /login up to user.fcmTokens.push(fcmToken): the
\* account is loaded and the token is pushed on the loaded document unless it
\* is included; an error is logged and the request goes on
LoginRead(r, u, t, ok) ==
    /\ tr[r].pc = "idle"
    /\ LET start == [IdleTokenReq EXCEPT !.kind = KindLogin, !.user = u,
                                         !.token = t]
       IN  tr' = [tr EXCEPT ![r] =
               IF ~ok \/ Includes(users[u].fcmTokens, t)
               THEN [start EXCEPT !.pc = "done", !.status = 200]
               ELSE [start EXCEPT !.pc = "loginSave",
                                  !.doc = Append(users[u].fcmTokens, t)]]
    /\ UNCHANGED <<clock, users>>

\* await user.save() of updateFCMToken: the push of a Mongoose array is sent
\* as $push of the pushed token, with $inc of __v
LoginSave(r, ok) ==
    /\ tr[r].pc = "loginSave"
    /\ users' = IF ~ok THEN users
                ELSE [users EXCEPT
                         ![tr[r].user].fcmTokens = Append(@, tr[r].token),
                         ![tr[r].user].version = @ + 1]
    /\ tr' = [tr EXCEPT ![r].pc = "done", ![r].status = 200, ![r].doc = <<>>]
    /\ UNCHANGED clock

\* PUT /fcm-token up to `const user = await User.findById(userId)`
PutRead(r, u, t, old, ok) ==
    /\ tr[r].pc = "idle"
    /\ LET start == [IdleTokenReq EXCEPT !.kind = KindPut, !.user = u,
                                         !.token = t, !.old = old]
       IN  tr' = [tr EXCEPT ![r] =
               IF ~ok THEN [start EXCEPT !.pc = "done", !.status = 500]
               ELSE [start EXCEPT !.pc = "putSave",
                                  !.doc = users[u].fcmTokens,
                                  !.version = users[u].version]]
    /\ UNCHANGED <<clock, users>>

\* the rest of PUT /fcm-token: the filter (an assignment of the array: save
\* sends $set of the array, conditional on the loaded __v), the push, and
\* await user.save()
PutSave(r, ok) ==
    /\ tr[r].pc = "putSave"
    /\ LET u == tr[r].user
           removes == tr[r].old # NoToken /\ Includes(tr[r].doc, tr[r].old)
           filtered == IF removes THEN Without(tr[r].doc, tr[r].old)
                       ELSE tr[r].doc
           pushes == ~Includes(filtered, tr[r].token)
           local == IF pushes THEN Append(filtered, tr[r].token) ELSE filtered
           end(code) == [tr EXCEPT ![r].pc = "done", ![r].status = code,
                                   ![r].doc = <<>>]
       IN  IF ~ok \/ (removes /\ users[u].version # tr[r].version)
           THEN tr' = end(500) /\ UNCHANGED users
           ELSE /\ tr' = end(200)
                /\ users' =
                     IF removes
                     THEN [users EXCEPT ![u].fcmTokens = local,
                                        ![u].version = @ + 1]
                     ELSE IF pushes
                     THEN [users EXCEPT
                              ![u].fcmTokens = Append(@, tr[r].token),
                              ![u].version = @ + 1]
                     ELSE users
    /\ UNCHANGED clock

\* POST /logout: findByIdAndUpdate with $pull of the token
Logout(r, u, t, ok) ==
    /\ tr[r].pc = "idle"
    /\ tr' = [tr EXCEPT ![r] =
                 [IdleTokenReq EXCEPT !.pc = "done", !.kind = KindLogout,
                                      !.user = u, !.token = t,
                                      !.status = IF ok THEN 200 ELSE 500]]
    /\ users' = IF ~ok THEN users
                ELSE [users EXCEPT ![u].fcmTokens = Without(@, t)]
    /\ UNCHANGED clock

\* the keys that schemas.updateProfile knows (of them the model keeps
\* settings); Joi rejects a body with any other key
ProfileKeys == {"displayName", "phoneNumber", "profile", "settings"}

ValidatesAnyBody(body) == TRUE

\* validate(schemas.updateProfile): TRUE when next() is called without error
ValidProfileBody(body) == DOMAIN body \subseteq ProfileKeys

\* the bodies sent to PUT /profile: new settings, and a body that carries a
\* subscription sub-record
ProfileBodies ==
    { [settings |-> [notificationsEnabled |-> FALSE,
                     reminderTimes |-> <<"22:00">>]],
      [subscription |-> [FullSubscription(NoDate) EXCEPT
                            !.status = "active", !.trialEndsAt = NoDate]] }

\* PUT /profile: findByIdAndUpdate(userId, { $set: updates })
UpdateProfile(u, body) ==
    /\ ValidProfileBody(body)
    /\ users' = [users EXCEPT ![u] =
                    [f \in DOMAIN @ |->
                        IF f \in DOMAIN body THEN body[f] ELSE @[f]]]
    /\ users' # users
    /\ UNCHANGED <<clock, tr>>

\* PUT /settings of the notification routes
UpdateSettings(u, enabled, times) ==
    /\ users' = [users EXCEPT ![u].settings.notificationsEnabled = enabled,
                              ![u].settings.reminderTimes = times]
    /\ users' # users
    /\ UNCHANGED <<clock, tr>>

\* DELETE /account: the soft delete
Deactivate(u) ==
    /\ users[u].isActive
    /\ users' = [users EXCEPT ![u].isActive = FALSE]
    /\ UNCHANGED <<clock, tr>>

\* POST /create without a customer reference: createCustomer and the first
\* findByIdAndUpdate (the customer of the account u has the id u)
CreateCustomer(u) ==
    /\ users[u].subscription.stripeCustomerId = NoSub
    /\ users' = [users EXCEPT ![u].subscription.stripeCustomerId = u]
    /\ UNCHANGED <<clock, tr>>

\* POST /create: createSubscription returned `snap` and the second
\* findByIdAndUpdate
CreateSubscription(u, snap) ==
    /\ users[u].subscription.stripeCustomerId # NoSub
    /\ users' = [users EXCEPT ![u].subscription =
                    [@ EXCEPT
                        !.stripeSubscriptionId = snap.id,
                        !.status = IF snap.status = "trialing"
                                   THEN "free_trial" ELSE "active",
                        !.currentPeriodStart =
                            DateFromSeconds(snap.current_period_start),
                        !.currentPeriodEnd =
                            DateFromSeconds(snap.current_period_end)]]
    /\ users' # users
    /\ UNCHANGED <<clock, tr>>

\* POST /cancel of an account with a subscription reference: the update at
\* the provider resolved, and the findByIdAndUpdate
Cancel(u, cancelAtPeriodEnd) ==
    /\ users[u].subscription.stripeSubscriptionId # NoSub
    /\ users' = [users EXCEPT ![u].subscription =
                    [@ EXCEPT
                        !.status = IF cancelAtPeriodEnd
                                   THEN "canceled" ELSE "expired",
                        !.canceledAt = Now]]
    /\ users' # users
    /\ UNCHANGED <<clock, tr>>

TokenIdle == <<tr>>

TokenAtRest == tr = [r \in Reqs |-> IdleTokenReq]

\* ------------------------------------------------------------------------
\* The parts of the state that the specifications below leave at rest
\* ------------------------------------------------------------------------
ExtraIdle == <<TrialIdle, SchedIdle, BulkIdle, TokenIdle>>

ExtraAtRest == TrialAtRest /\ SchedStarted /\ BulkAtRest /\ TokenAtRest

\* ------------------------------------------------------------------------
\* Specification of the redemption coordinator
\* ------------------------------------------------------------------------
NoValidation == [valid |-> FALSE, reason |-> NoReason]

WebhookIdle == <<customers, subscriptions, hooks>>
ValidateIdle == <<vDoc, vUser, vNow, vResult>>
PromoFrame == <<WebhookIdle, ValidateIdle, AuthIdle, ReminderIdle, ExtraIdle>>

InitPromo ==
    /\ clock = 0
    /\ \E a \in InitialAccounts : users = [u \in Users |-> a]
    /\ promo \in NewPromoCodes
    /\ rq = [r \in Reqs |-> IdleRequest]
    /\ customers = InitCustomers
    /\ subscriptions = InitSubscriptions
    /\ hooks = [h \in Hooks |-> IdleHook]
    /\ vDoc = NoDoc
    /\ vUser = NoUser
    /\ vNow = NoDate
    /\ vResult = NoValidation
    /\ AuthAtRest
    /\ ReminderAtRest
    /\ ExtraAtRest

NextPromo ==
    \/ \E r \in Reqs, u \in Users, ok \in BOOLEAN :
          FindValidCodeStep(r, u, ok) /\ UNCHANGED PromoFrame
    \/ \E r \in Reqs, ok \in BOOLEAN :
          UseStep(r, ok) /\ UNCHANGED PromoFrame
    \/ \E r \in Reqs, ok \in BOOLEAN :
          FindUserStep(r, ok) /\ UNCHANGED PromoFrame
    \/ \E r \in Reqs, ok \in BOOLEAN :
          SaveUserStep(r, ok) /\ UNCHANGED PromoFrame
    \/ Tick /\ UNCHANGED PromoFrame

SpecPromo == InitPromo /\ [][NextPromo]_vars

\* ------------------------------------------------------------------------
\* Specification of the payment event processor
\* ------------------------------------------------------------------------
PromoIdle == <<promo, rq>>
WebhookFrame == <<PromoIdle, ValidateIdle, AuthIdle, ReminderIdle, ExtraIdle>>

InitWebhook ==
    /\ clock = 0
    /\ \E a \in BilledAccounts : users = [u \in Users |-> a]
    /\ promo = NoDoc
    /\ rq = [r \in Reqs |-> IdleRequest]
    /\ customers = InitCustomers
    /\ subscriptions = InitSubscriptions
    /\ hooks = [h \in Hooks |-> IdleHook]
    /\ vDoc = NoDoc
    /\ vUser = NoUser
    /\ vNow = NoDate
    /\ vResult = NoValidation
    /\ AuthAtRest
    /\ ReminderAtRest
    /\ ExtraAtRest

NextWebhook ==
    \/ \E h \in Hooks, ev \in Events :
          Deliver(h, ev) /\ UNCHANGED WebhookFrame
    \/ \E h \in Hooks : Redeliver(h) /\ UNCHANGED WebhookFrame
    \/ \E h \in Hooks, ok \in BOOLEAN :
          RetrieveSubscription(h, ok) /\ UNCHANGED WebhookFrame
    \/ \E h \in Hooks, ok \in BOOLEAN :
          RetrieveCustomer(h, ok) /\ UNCHANGED WebhookFrame
    \/ \E h \in Hooks, ok \in BOOLEAN :
          UpdateUser(h, ok) /\ UNCHANGED WebhookFrame
    \/ Tick /\ UNCHANGED PromoFrame

SpecWebhook == InitWebhook /\ [][NextWebhook]_vars

\* ------------------------------------------------------------------------
\* Specification of validation alone: isValid applied to arbitrary documents
\* ------------------------------------------------------------------------
ValidationDocs ==
    [type : {"free_month"},
     isActive : BOOLEAN,
     usageLimit : {NoLimit} \cup (1..MaxLimit),
     usedCount : 0..MaxLimit,
     usedBy : {<<>>} \cup {<<u>> : u \in Users},
     validFrom : {DateAt(0), DateAt(1)},
     validUntil : {NoDate, DateAt(0), DateAt(1)},
     version : {0}]

InitValid ==
    /\ clock = 0
    /\ users = [u \in Users |-> [subscription |-> NewSubscription(DateAt(0))]]
    /\ promo = NoDoc
    /\ rq = [r \in Reqs |-> IdleRequest]
    /\ customers = InitCustomers
    /\ subscriptions = InitSubscriptions
    /\ hooks = [h \in Hooks |-> IdleHook]
    /\ vDoc \in ValidationDocs
    /\ vUser \in {NoUser} \cup Users
    /\ vNow \in {DateAt(0), DateAt(1)}
    /\ vResult = NoValidation
    /\ AuthAtRest
    /\ ReminderAtRest
    /\ ExtraAtRest

Validate ==
    /\ vResult = NoValidation
    /\ vResult' = isValid(vDoc, vUser, vNow)
    /\ UNCHANGED <<clock, users, promo, rq, WebhookIdle, vDoc, vUser, vNow,
                   AuthIdle, ReminderIdle, ExtraIdle>>

NextValid == Validate

SpecValid == InitValid /\ [][NextValid]_vars

\* ------------------------------------------------------------------------
\* Specification of the account cache: authenticated requests that pass an
\* entitlement gate while subscription events are processed
\* ------------------------------------------------------------------------
InitCache ==
    /\ clock = 0
    /\ \E a \in BilledAccounts : users = [u \in Users |-> a]
    /\ promo = NoDoc
    /\ rq = [r \in Reqs |-> IdleRequest]
    /\ customers = InitCustomers
    /\ subscriptions = InitSubscriptions
    /\ hooks = [h \in Hooks |-> IdleHook]
    /\ vDoc = NoDoc
    /\ vUser = NoUser
    /\ vNow = NoDate
    /\ vResult = NoValidation
    /\ AuthAtRest
    /\ ReminderAtRest
    /\ ExtraAtRest

CacheFrame == <<promo, rq, customers, subscriptions, hooks, ValidateIdle,
                ReminderIdle, ExtraIdle>>

NextCache ==
    \/ \E r \in Reqs, u \in Users, g \in Gates :
          CacheGet(r, u, g) /\ UNCHANGED CacheFrame
    \/ \E r \in Reqs : FindOne(r) /\ UNCHANGED CacheFrame
    \/ \E r \in Reqs : CacheSet(r) /\ UNCHANGED CacheFrame
    \/ \E r \in Reqs : Gate(r) /\ UNCHANGED CacheFrame
    \/ \E u \in Users : Expire(u) /\ UNCHANGED CacheFrame
    \/ \E h \in Hooks, ev \in SubscriptionEvents :
          Deliver(h, ev) /\ UNCHANGED WebhookFrame
    \/ \E h \in Hooks, ok \in BOOLEAN :
          RetrieveCustomer(h, ok) /\ UNCHANGED WebhookFrame
    \/ \E h \in Hooks, ok \in BOOLEAN :
          UpdateUser(h, ok) /\ UNCHANGED WebhookFrame

SpecCache == InitCache /\ [][NextCache]_vars

\* ------------------------------------------------------------------------
\* Specification of the progress reminders: runs of the job of one day while
\* accounts log their progress
\* ------------------------------------------------------------------------
InitReminder ==
    /\ clock = 0
    /\ users = [u \in Users |-> [subscription |-> NewSubscription(DateAt(0))]]
    /\ promo = NoDoc
    /\ rq = [r \in Reqs |-> IdleRequest]
    /\ customers = InitCustomers
    /\ subscriptions = InitSubscriptions
    /\ hooks = [h \in Hooks |-> IdleHook]
    /\ vDoc = NoDoc
    /\ vUser = NoUser
    /\ vNow = NoDate
    /\ vResult = NoValidation
    /\ AuthAtRest
    /\ profiles \in Profiles
    /\ progress = InitProgress
    /\ job = IdleJob
    /\ ExtraAtRest

ReminderFrame == <<users, promo, rq, WebhookIdle, ValidateIdle, AuthIdle,
                   ExtraIdle>>

NextReminder ==
    \/ \E m \in Members : LogProgress(m) /\ UNCHANGED ReminderFrame
    \/ \E hour \in RunHours, ok \in BOOLEAN :
          StartRun(hour, ok) /\ UNCHANGED ReminderFrame
    \/ \E ok \in BOOLEAN : CheckProgress(ok) /\ UNCHANGED ReminderFrame
    \/ \E ok \in BOOLEAN : SendReminders(ok) /\ UNCHANGED ReminderFrame

SpecReminder == InitReminder /\ [][NextReminder]_vars

\* ------------------------------------------------------------------------
\* Specification of the trial-expiry check: runs of the 10:00 job over
\* accounts at every distance from the end of their trial
\* ------------------------------------------------------------------------
\* the state of the redemption, webhook, cache and reminder parts at rest
CoreAtRest ==
    /\ users = [u \in Users |-> [subscription |-> NewSubscription(DateAt(0))]]
    /\ promo = NoDoc
    /\ rq = [r \in Reqs |-> IdleRequest]
    /\ customers = InitCustomers
    /\ subscriptions = InitSubscriptions
    /\ hooks = [h \in Hooks |-> IdleHook]
    /\ vDoc = NoDoc
    /\ vUser = NoUser
    /\ vNow = NoDate
    /\ vResult = NoValidation
    /\ AuthAtRest
    /\ ReminderAtRest

CoreIdle == <<users, promo, rq, WebhookIdle, ValidateIdle, AuthIdle,
              ReminderIdle>>

InitTrial ==
    /\ clock = 0
    /\ CoreAtRest
    /\ trialUsers \in TrialAccounts
    /\ trialJob = IdleTrialJob
    /\ SchedStarted
    /\ BulkAtRest
    /\ TokenAtRest

TrialFrame == <<CoreIdle, SchedIdle, BulkIdle, TokenIdle>>

NextTrial ==
    \/ \E ok \in BOOLEAN : StartTrialCheck(ok) /\ UNCHANGED TrialFrame
    \/ \E ok \in BOOLEAN : SendTrialTurn(ok) /\ UNCHANGED TrialFrame

SpecTrial == InitTrial /\ [][NextTrial]_vars

\* ------------------------------------------------------------------------
\* Specification of the bulk generation: one request of POST /bulk/generate
\* while an administrator creates codes
\* ------------------------------------------------------------------------
InitBulk ==
    /\ clock = 0
    /\ CoreAtRest
    /\ TrialAtRest
    /\ SchedStarted
    /\ \E seeded \in SUBSET Codes :
          ledger = { [code |-> c, by |-> "seed"] : c \in seeded }
    /\ bulk = IdleBulk
    /\ TokenAtRest

BulkFrame == <<clock, CoreIdle, TrialIdle, SchedIdle, TokenIdle>>

NextBulk ==
    \/ \E count \in 0..MaxCount : StartBulk(count) /\ UNCHANGED BulkFrame
    \/ \E c \in Codes, ok \in BOOLEAN : CheckCode(c, ok) /\ UNCHANGED BulkFrame
    \/ \E ok \in BOOLEAN : SaveCode(ok) /\ UNCHANGED BulkFrame
    \/ \E c \in Codes : CreateCode(c) /\ UNCHANGED BulkFrame

SpecBulk == InitBulk /\ [][NextBulk]_vars

\* ------------------------------------------------------------------------
\* Specification of the account: every operation that writes the account
\* document, interleaved (a redemption, payment events, the subscription
\* routes, the profile and settings routes, the token routes, deactivation)
\* ------------------------------------------------------------------------
\* a new account, and an account that subscribed through POST /create
AccountKinds ==
    { NewAccount(DateAt(0)),
      [NewAccount(DateAt(0)) EXCEPT
          !.subscription =
              [f \in DOMAIN FullSubscription(DateAt(0)) |->
                  IF f \in DOMAIN PaidSubscription(DateAt(0))
                  THEN PaidSubscription(DateAt(0))[f] ELSE 1],
          !.fcmTokens = <<1>>] }

\* the codes redeemed here: valid, unlimited, open from the start
AccountPromoCodes ==
    { d \in NewPromoCodes :
        /\ d.isActive
        /\ d.usageLimit = NoLimit
        /\ d.validFrom = DateAt(0) /\ d.validUntil = NoDate
        /\ d.type \in {"free_month", "lifetime"} }

\* the payment events of the first account: an update to active, the
\* deletion and a paid invoice
AccountEvents ==
    { ev \in SubscriptionEvents :
          ev.object.customer = 1 /\ ev.object.status \in {"active", "canceled"}
              /\ (ev.type = TypeUpdated => ev.object.status = "active") }
        \cup { Event(TypePaid, TRUE, NoSnapshot, 1) }

InitAccount ==
    /\ clock = 0
    /\ \E a \in AccountKinds : users = [u \in Users |-> a]
    /\ promo \in AccountPromoCodes
    /\ rq = [r \in Reqs |-> IdleRequest]
    /\ customers = InitCustomers
    /\ subscriptions = InitSubscriptions
    /\ hooks = [h \in Hooks |-> IdleHook]
    /\ vDoc = NoDoc
    /\ vUser = NoUser
    /\ vNow = NoDate
    /\ vResult = NoValidation
    /\ AuthAtRest
    /\ ReminderAtRest
    /\ ExtraAtRest

\* what the account routes leave alone
RouteFrame == <<promo, rq, WebhookIdle, ValidateIdle, AuthIdle, ReminderIdle,
                TrialIdle, SchedIdle, BulkIdle>>

\* one request of each kind is in flight, on the first account and with the
\* first device token
FirstSlot == {1}

NextAccount ==
    \/ \E r \in FirstSlot, u \in FirstSlot :
          FindValidCodeStep(r, u, TRUE) /\ UNCHANGED PromoFrame
    \/ \E r \in FirstSlot : UseStep(r, TRUE) /\ UNCHANGED PromoFrame
    \/ \E r \in FirstSlot : FindUserStep(r, TRUE) /\ UNCHANGED PromoFrame
    \/ \E r \in FirstSlot : SaveUserStep(r, TRUE) /\ UNCHANGED PromoFrame
    \/ \E h \in FirstSlot, ev \in AccountEvents :
          Deliver(h, ev) /\ UNCHANGED WebhookFrame
    \/ \E h \in FirstSlot :
          RetrieveSubscription(h, TRUE) /\ UNCHANGED WebhookFrame
    \/ \E h \in FirstSlot : RetrieveCustomer(h, TRUE) /\ UNCHANGED WebhookFrame
    \/ \E h \in FirstSlot : UpdateUser(h, TRUE) /\ UNCHANGED WebhookFrame
    \/ \E r \in FirstSlot, u \in FirstSlot, t \in FirstSlot :
          LoginRead(r, u, t, TRUE) /\ UNCHANGED RouteFrame
    \/ \E r \in FirstSlot : LoginSave(r, TRUE) /\ UNCHANGED RouteFrame
    \/ \E r \in FirstSlot, u \in FirstSlot, t \in FirstSlot,
          old \in FirstSlot \cup {NoToken} :
          PutRead(r, u, t, old, TRUE) /\ UNCHANGED RouteFrame
    \/ \E r \in FirstSlot : PutSave(r, TRUE) /\ UNCHANGED RouteFrame
    \/ \E r \in FirstSlot, u \in FirstSlot, t \in FirstSlot :
          Logout(r, u, t, TRUE) /\ UNCHANGED RouteFrame
    \/ \E u \in FirstSlot, body \in ProfileBodies :
          UpdateProfile(u, body) /\ UNCHANGED RouteFrame
    \/ \E u \in FirstSlot :
          UpdateSettings(u, FALSE, <<"22:00">>) /\ UNCHANGED RouteFrame
    \/ \E u \in FirstSlot : Deactivate(u) /\ UNCHANGED RouteFrame
    \/ \E u \in FirstSlot : CreateCustomer(u) /\ UNCHANGED RouteFrame
    \/ \E u \in FirstSlot, st \in {"trialing", "incomplete"} :
          CreateSubscription(u, [subscriptions[u] EXCEPT !.status = st])
              /\ UNCHANGED RouteFrame
    \/ \E u \in FirstSlot, atEnd \in BOOLEAN :
          Cancel(u, atEnd) /\ UNCHANGED RouteFrame

SpecAccount == InitAccount /\ [][NextAccount]_vars

\* ------------------------------------------------------------------------
\* Specification of the device tokens: logins, token replacements and
\* logouts of one account, interleaved
\* ------------------------------------------------------------------------
InitTokens ==
    /\ clock = 0
    /\ \E tokens \in {<<>>, <<1>>} :
          users = [u \in Users |->
                      [NewAccount(DateAt(0)) EXCEPT !.fcmTokens = tokens]]
    /\ promo = NoDoc
    /\ rq = [r \in Reqs |-> IdleRequest]
    /\ customers = InitCustomers
    /\ subscriptions = InitSubscriptions
    /\ hooks = [h \in Hooks |-> IdleHook]
    /\ vDoc = NoDoc
    /\ vUser = NoUser
    /\ vNow = NoDate
    /\ vResult = NoValidation
    /\ AuthAtRest
    /\ ReminderAtRest
    /\ ExtraAtRest

NextTokens ==
    \/ \E r \in Reqs, u \in Users, t \in Tokens, ok \in BOOLEAN :
          LoginRead(r, u, t, ok) /\ UNCHANGED RouteFrame
    \/ \E r \in Reqs, ok \in BOOLEAN : LoginSave(r, ok) /\ UNCHANGED RouteFrame
    \/ \E r \in Reqs, u \in Users, t \in Tokens, old \in Tokens \cup {NoToken},
          ok \in BOOLEAN :
          PutRead(r, u, t, old, ok) /\ UNCHANGED RouteFrame
    \/ \E r \in Reqs, ok \in BOOLEAN : PutSave(r, ok) /\ UNCHANGED RouteFrame
    \/ \E r \in Reqs, u \in Users, t \in Tokens, ok \in BOOLEAN :
          Logout(r, u, t, ok) /\ UNCHANGED RouteFrame

SpecTokens == InitTokens /\ [][NextTokens]_vars

\* ------------------------------------------------------------------------
\* Specification of a redemption that runs while a payment event of the
\* same account is processed
\* ------------------------------------------------------------------------
NextRace ==
    \/ \E r \in FirstSlot, u \in FirstSlot :
          FindValidCodeStep(r, u, TRUE) /\ UNCHANGED PromoFrame
    \/ \E r \in FirstSlot, ok \in BOOLEAN : UseStep(r, ok) /\ UNCHANGED PromoFrame
    \/ \E r \in FirstSlot, ok \in BOOLEAN :
          FindUserStep(r, ok) /\ UNCHANGED PromoFrame
    \/ \E r \in FirstSlot, ok \in BOOLEAN :
          SaveUserStep(r, ok) /\ UNCHANGED PromoFrame
    \/ \E h \in FirstSlot, ev \in AccountEvents :
          Deliver(h, ev) /\ UNCHANGED WebhookFrame
    \/ \E h \in FirstSlot, ok \in BOOLEAN :
          RetrieveSubscription(h, ok) /\ UNCHANGED WebhookFrame
    \/ \E h \in FirstSlot, ok \in BOOLEAN :
          RetrieveCustomer(h, ok) /\ UNCHANGED WebhookFrame
    \/ \E h \in FirstSlot, ok \in BOOLEAN :
          UpdateUser(h, ok) /\ UNCHANGED WebhookFrame

SpecRace == InitAccount /\ [][NextRace]_vars

\* ------------------------------------------------------------------------
\* Specification of the scheduler: calls of startReminderScheduler,
\* scheduleTrialExpiryReminders and stopAllReminders in any order on the
\* service as constructed
\* ------------------------------------------------------------------------
InitSched ==
    /\ clock = 0
    /\ CoreAtRest
    /\ TrialAtRest
    /\ SchedNew
    /\ BulkAtRest
    /\ TokenAtRest

SchedFrame == <<clock, CoreIdle, TrialIdle, BulkIdle, TokenIdle>>

NextSched ==
    \/ StartReminderScheduler /\ UNCHANGED SchedFrame
    \/ ScheduleTrialExpiryReminders /\ UNCHANGED SchedFrame
    \/ StopAllReminders /\ UNCHANGED SchedFrame

SpecSched == InitSched /\ [][NextSched]_vars

\* ------------------------------------------------------------------------
\* Properties of the redemption coordinator
\* ------------------------------------------------------------------------

\* C1: a code with a usage limit L never has usedCount above L, whatever
\* the interleaving of the redemption attempts.
UsageLimitRespected ==
    promo.usageLimit # NoLimit => promo.usedCount <= promo.usageLimit

\* C1 witness: more redemptions were written than the limit allows (a race)
\* and the counter still stands at the limit.
UsageLimitRaced ==
    /\ promo.usageLimit # NoLimit
    /\ promo.usedCount = promo.usageLimit
    /\ Len(promo.usedBy) > promo.usageLimit

\* C2: no account id appears twice in usedBy.
NoDuplicateRedeemers ==
    \A i, j \in 1..Len(promo.usedBy) :
        i # j => promo.usedBy[i] # promo.usedBy[j]

\* C3: an attempt by an account that is already in usedBy fails, and the
\* failure it reports is the "already used" reason.
RepeatReportsAlreadyUsed ==
    [][\A r \in Reqs :
          (/\ rq[r].pc = "idle"
           /\ rq'[r].pc # "idle"
           /\ rq'[r].status # 500
           /\ Includes(promo.usedBy, rq'[r].user))
          => (rq'[r].pc = "done" /\ rq'[r].error = ReasonAlreadyUsed)]_vars

InvalidityReasons ==
    {ReasonNotActive, ReasonNotYetValid, ReasonExpired, ReasonLimit,
     ReasonAlreadyUsed}

\* C4: every failed redemption attempt (other than a
\* storage failure) answers with one of the invalidity reasons determined by
\* validation, not with a generic failure.
FailureCarriesReason ==
    \A r \in Reqs :
        (/\ rq[r].pc = "done"
         /\ rq[r].status \in {400, 404}
         /\ rq[r].error # ErrDb)
        => rq[r].error \in InvalidityReasons

\* C5: isValid answers valid exactly when the five conditions hold, and
\* otherwise gives the reason of the first failing check, in the order
\* active, not yet valid, expired, limit reached, already used.
ValidExactlyWhen ==
    vResult # NoValidation =>
        LET active == vDoc.isActive
            started == DateLE(vDoc.validFrom, vNow)
            notExpired == ~IsSet(vDoc.validUntil) \/ DateLE(vNow, vDoc.validUntil)
            headroom == vDoc.usageLimit = NoLimit
                            \/ vDoc.usedCount < vDoc.usageLimit
            fresh == vUser = NoUser
                        \/ \A i \in 1..Len(vDoc.usedBy) : vDoc.usedBy[i] # vUser
        IN  /\ vResult.valid <=>
                  (active /\ started /\ notExpired /\ headroom /\ fresh)
            /\ ~vResult.valid =>
                  vResult.reason =
                      IF ~active THEN ReasonNotActive
                      ELSE IF ~started THEN ReasonNotYetValid
                      ELSE IF ~notExpired THEN ReasonExpired
                      ELSE IF ~headroom THEN ReasonLimit
                      ELSE ReasonAlreadyUsed

\* C5 witness: both the limit check and the already-used check fail, and
\* the limit reason is the one reported.
ValidLimitBeforeUsed ==
    /\ vResult.reason = ReasonLimit
    /\ vUser # NoUser
    /\ Includes(vDoc.usedBy, vUser)

\* ------------------------------------------------------------------------
\* Properties of the payment event processor
\* ------------------------------------------------------------------------

\* C6: an event whose signature does not verify is rejected at verification:
\* its handler performs no provider or account lookup and changes no
\* account; the lookups and the update are reached only by verified events.
SignatureGate ==
    [][\A h \in Hooks :
          /\ hooks'[h].pc \in {"retrieveSubscription", "retrieveCustomer", "update"}
                => hooks'[h].event.sigValid
          /\ (hooks'[h] # hooks[h] /\ ~hooks'[h].event.sigValid)
                => /\ users' = users
                   /\ hooks'[h].pc = "done"
                   /\ hooks'[h].status = 500
                   /\ hooks'[h].log = NoLog]_vars

\* C6 witness: a tampered event has been answered with the error response.
TamperedRejected ==
    \E h \in Hooks :
        /\ ~hooks[h].event.sigValid
        /\ hooks[h].pc = "done"
        /\ hooks[h].status = 500

\* C7: once a subscription.updated event has been applied to an account,
\* applying the same event again leaves the subscription sub-record as it is.
UpdatedIsIdempotent ==
    [][\A h \in Hooks :
          (/\ hooks[h].pc = "update"
           /\ hooks'[h].status = 200
           /\ hooks[h].event.type = TypeUpdated
           /\ hooks[h].cust.userId \in DOMAIN users)
          => LET after == users'[hooks[h].cust.userId].subscription
             IN  SubUpdated(after, hooks[h].sub) = after]_vars

\* C7 witness: the same subscription.updated event was applied twice.
UpdatedAppliedTwice ==
    \E h \in Hooks :
        /\ hooks[h].event.type = TypeUpdated
        /\ hooks[h].pc = "done"
        /\ hooks[h].prev = "subscription_updated"
        /\ hooks[h].log = "subscription_updated"

\* C8: after a subscription.updated event the status is free_trial (the
\* trial status) for trialing, active for active, canceled for canceled and
\* expired otherwise, and the period bounds are those of the snapshot.
UpdatedMapsSnapshot ==
    [][\A h \in Hooks :
          (/\ hooks[h].pc = "update"
           /\ hooks'[h].status = 200
           /\ hooks[h].event.type = TypeUpdated
           /\ hooks[h].cust.userId \in DOMAIN users)
          => LET after == users'[hooks[h].cust.userId].subscription
                 snap == hooks[h].event.object
             IN  /\ snap.status = "trialing" => after.status = "free_trial"
                 /\ snap.status = "active" => after.status = "active"
                 /\ snap.status = "canceled" => after.status = "canceled"
                 /\ snap.status \notin {"trialing", "active", "canceled"}
                       => after.status = "expired"
                 /\ after.currentPeriodStart.day * SecPerDay
                       + after.currentPeriodStart.ms \div MsPerSec
                          = snap.current_period_start
                 /\ after.currentPeriodStart.ms % MsPerSec = 0
                 /\ after.currentPeriodEnd.day * SecPerDay
                       + after.currentPeriodEnd.ms \div MsPerSec
                          = snap.current_period_end
                 /\ after.currentPeriodEnd.ms % MsPerSec = 0]_vars

\* C8 witness: a past_due snapshot has been applied and the account is
\* expired with the snapshot's period.
PastDueExpired ==
    \E h \in Hooks :
        /\ hooks[h].event.type = TypeUpdated
        /\ hooks[h].event.object.status = "past_due"
        /\ hooks[h].pc = "done"
        /\ hooks[h].log = "subscription_updated"
        /\ users[hooks[h].cust.userId].subscription.status = "expired"
        /\ users[hooks[h].cust.userId].subscription.currentPeriodEnd
              = DateFromSeconds(EventPeriod.end)

\* C9: after a subscription.deleted event the status is expired and
\* canceledAt is the processing time.
DeletedExpires ==
    [][\A h \in Hooks :
          (/\ hooks[h].pc = "update"
           /\ hooks'[h].status = 200
           /\ hooks[h].event.type = TypeDeleted
           /\ hooks[h].cust.userId \in DOMAIN users)
          => LET after == users'[hooks[h].cust.userId].subscription
             IN  after.status = "expired" /\ after.canceledAt = Now]_vars

\* C9 witness: a deletion was processed after the clock advanced.
DeletedAtProcessingTime ==
    \E h \in Hooks :
        /\ hooks[h].event.type = TypeDeleted
        /\ hooks[h].pc = "done"
        /\ hooks[h].log = "subscription_deleted"
        /\ clock = 1
        /\ users[hooks[h].cust.userId].subscription.status = "expired"
        /\ users[hooks[h].cust.userId].subscription.canceledAt = DateAt(1)

\* C10: after an invoice.payment_succeeded event the status is active and
\* the period bounds are those of the invoice's subscription at the provider.
PaidActivates ==
    [][\A h \in Hooks :
          (/\ hooks[h].pc = "update"
           /\ hooks'[h].status = 200
           /\ hooks[h].event.type = TypePaid
           /\ hooks[h].cust.userId \in DOMAIN users)
          => LET after == users'[hooks[h].cust.userId].subscription
                 snap == subscriptions[hooks[h].event.subscription]
             IN  /\ after.status = "active"
                 /\ after.currentPeriodStart.day * SecPerDay
                       + after.currentPeriodStart.ms \div MsPerSec
                          = snap.current_period_start
                 /\ after.currentPeriodStart.ms % MsPerSec = 0
                 /\ after.currentPeriodEnd.day * SecPerDay
                       + after.currentPeriodEnd.ms \div MsPerSec
                          = snap.current_period_end
                 /\ after.currentPeriodEnd.ms % MsPerSec = 0]_vars

\* C10 witness: a payment was processed for an account that keeps the
\* cancellation date of its earlier canceled or expired state.
PaidAfterCancellation ==
    \E h \in Hooks :
        /\ hooks[h].event.type = TypePaid
        /\ hooks[h].pc = "done"
        /\ hooks[h].log = "payment_succeeded"
        /\ users[hooks[h].cust.userId].subscription.status = "active"
        /\ IsSet(users[hooks[h].cust.userId].subscription.canceledAt)
        /\ users[hooks[h].cust.userId].subscription.currentPeriodEnd
              = DateFromSeconds(ProviderPeriod.end)

\* C11: processing an invoice.payment_failed event leaves the subscription
\* sub-record of every account as it was, whatever the account's status.
FailedChangesNothing ==
    [][\A h \in Hooks :
          (hooks[h].event.type = TypeFailed /\ hooks'[h] # hooks[h])
          => \A u \in Users : users'[u].subscription = users[u].subscription]_vars

\* C11 witness: a payment_failed event of an account was processed to its
\* end (its Log document written) after the clock advanced.
FailedProcessed ==
    \E h \in Hooks :
        /\ hooks[h].event.type = TypeFailed
        /\ hooks[h].pc = "done"
        /\ hooks[h].log = "payment_failed"
        /\ hooks[h].cust.userId \in Users
        /\ clock = 1

\* C12: a verified event of a type that is not handled is answered with the
\* success response by the step that receives it and changes no account.
UnhandledAcknowledged ==
    [][\A h \in Hooks :
          (/\ hooks'[h] # hooks[h]
           /\ hooks'[h].event.sigValid
           /\ hooks'[h].event.type \notin HandledTypes)
          => /\ hooks'[h].pc = "done"
             /\ hooks'[h].status = 200
             /\ users' = users]_vars

\* C12 witness: an event of another type was acknowledged.
OtherTypeAcknowledged ==
    \E h \in Hooks :
        /\ hooks[h].event.type = TypeOther
        /\ hooks[h].event.sigValid
        /\ hooks[h].pc = "done"
        /\ hooks[h].status = 200

\* C13: when the customer of a verified event is retrieved and maps to no
\* account (deleted, or without metadata.userId), the event is answered
\* with the success response, not with an error, and no account changes.
UnresolvedAcknowledged ==
    [][\A h \in Hooks :
          (/\ hooks[h].pc = "retrieveCustomer"
           /\ hooks'[h].cust # NoCustomer
           /\ (hooks'[h].cust.deleted \/ hooks'[h].cust.userId = NoUser))
          => /\ hooks'[h].pc = "done"
             /\ hooks'[h].status = 200
             /\ users' = users]_vars

\* C13 witness: an event of a customer without metadata.userId was
\* acknowledged.
UnmappedAcknowledged ==
    \E h \in Hooks :
        /\ hooks[h].pc = "done"
        /\ hooks[h].status = 200
        /\ hooks[h].cust # NoCustomer
        /\ ~hooks[h].cust.deleted
        /\ hooks[h].cust.userId = NoUser
        /\ hooks[h].event.type \in {TypeUpdated, TypeDeleted, TypePaid}

\* C14: a verified event is answered with the success response even when a
\* provider lookup or the account update fails while it is processed.
FailureAcknowledged ==
    \A h \in Hooks :
        (hooks[h].pc = "done" /\ hooks[h].event.sigValid)
        => hooks[h].status = 200

\* C15: every verified event that was processed has written its audit
\* record, whatever its branch.
AuditInEveryBranch ==
    \A h \in Hooks :
        (hooks[h].pc = "done" /\ hooks[h].event.sigValid /\ hooks[h].status = 200)
        => hooks[h].log # NoLog

\* ------------------------------------------------------------------------
\* Properties of the benefits of a redemption
\* ------------------------------------------------------------------------

\* number of days of month m (1..12) of year y
DaysInMonth(y, m) ==
    IF m = 12 THEN 31
    ELSE DaysFromCivil(y, m + 1, 1) - DaysFromCivil(y, m, 1)

\* the calendar date k months after `date`: the same day of the month and
\* time of day, and the last day of the target month when it has no such day
PlusMonths(date, k) ==
    LET c == CivilFromDays(date.day)
        m0 == (c.m - 1) + k
        y == c.y + m0 \div 12
        m == (m0 % 12) + 1
        d == IF c.d > DaysInMonth(y, m) THEN DaysInMonth(y, m) ELSE c.d
    IN  [day |-> DaysFromCivil(y, m, d), ms |-> date.ms]

\* C18: a successful redemption of a free_month code leaves the account's
\* currentPeriodEnd one month after its previous value, or one month after
\* now when it was unset.
FreeMonthAddsOneMonth ==
    [][\A r \in Reqs :
          (/\ rq[r].pc = "save"
           /\ rq'[r].status = 200
           /\ rq[r].doc.type = "free_month")
          => LET before == users[rq[r].user].subscription.currentPeriodEnd
                 after == users'[rq[r].user].subscription.currentPeriodEnd
             IN  after = IF IsSet(before) THEN PlusMonths(before, 1)
                         ELSE PlusMonths(Now, 1)]_vars

CacheCoherent ==
    (\A h \in Hooks : hooks[h].pc \in {"idle", "done"})
    => \A u \in Users :
          \/ cache[u] = NoEntry
          \/ cache[u].subscription = users[u].subscription

\* the decision the stored record yields: next() or the 403 response
StoreDecision(sub, gate, now) ==
    LET onTrial == sub.status = "free_trial"
                      /\ ~(IsSet(sub.trialEndsAt) /\ DateLT(sub.trialEndsAt, now))
        entitled == IF gate = GatePremium THEN sub.status = "active"
                    ELSE sub.status = "active" \/ onTrial
    IN  IF entitled THEN 200 ELSE 403

\* C17: when an entitlement gate allows or denies a request on a cached copy
\* of the account, its decision is the one that the stored record of the
\* account yields at that moment.
GateDecidesFromStore ==
    [][\A r \in Reqs :
          (/\ ar[r].pc = "gate"
           /\ ar'[r].pc = "done"
           /\ ~ar[r].dbUser.hydrated
           /\ ar'[r].status \in {200, 403})
          => ar'[r].status = StoreDecision(users[ar[r].user].subscription,
                                           ar[r].gate, Now)]_vars

\* ------------------------------------------------------------------------
\* Properties of the progress reminders
\* ------------------------------------------------------------------------

\* the reminder time of a run, as accounts store it
HourLabel(hour) == IF hour = 12 THEN "12:00" ELSE "18:00"

\* the account is a candidate of the run of `hour`
Candidate(m, hour) ==
    /\ profiles[m].isActive
    /\ profiles[m].notificationsEnabled
    /\ \E k \in 1..Len(profiles[m].reminderTimes) :
          profiles[m].reminderTimes[k] = HourLabel(hour)
    /\ Len(profiles[m].fcmTokens) >= 1

\* the account has a progress record dated on the day `day`
LoggedOn(m, day) == \E rec \in progress : rec.userId = m /\ rec.date.day = day

\* C20: in a run that stays within one day, the candidates are exactly the
\* accounts that are active, have notifications enabled, have H:00 among
\* their reminder times and have a device token; a candidate adds its
\* tokens to the batch exactly when it has no progress record dated today
\* at the time the run examines it; and the tokens passed to the multicast
\* push are that batch.
ReminderSelectsExactly ==
    [][/\ (job.pc \in {"idle", "done"} /\ job' # job /\ ~job'.failed)
            => /\ \A m \in Members :
                     Candidate(m, job'.hour)
                         <=> \E k \in 1..Len(job'.found) : job'.found[k].id = m
               /\ \A k, l \in 1..Len(job'.found) :
                     k # l => job'.found[k].id # job'.found[l].id
               /\ job'.allTokens = <<>>
               /\ job'.sent = <<>>
       /\ (job.pc = "check" /\ job' # job /\ job'.pc \in {"check", "send"}
                /\ Now.day = job.today.day)
            => LET m == job.found[job.i].id
               IN  job'.allTokens =
                       IF LoggedOn(m, Now.day) THEN job.allTokens
                       ELSE job.allTokens \o profiles[m].fcmTokens
       /\ (job.pc = "check" /\ job'.pc = "done" /\ ~job'.failed
                /\ Now.day = job.today.day)
            => /\ job.allTokens = <<>>
               /\ LoggedOn(job.found[job.i].id, Now.day)
               /\ job'.sent = <<>>
       /\ (job.pc = "send" /\ job' # job)
            => job'.sent = job.allTokens /\ job'.sent # <<>>]_vars

\* C20 witness: an account received the reminder of a run, logged its
\* progress, and the next run of the same day sent a batch without its
\* tokens while it is still a candidate.
ExcludedAfterLogging ==
    \E m \in Members :
        /\ job.pc = "done"
        /\ ~job.failed
        /\ Candidate(m, job.hour)
        /\ LoggedOn(m, Now.day)
        /\ job.sent # <<>>
        /\ \E k \in 1..Len(job.prev) : job.prev[k] = profiles[m].fcmTokens[1]
        /\ \A k \in 1..Len(job.sent) : job.sent[k] # profiles[m].fcmTokens[1]


\* ------------------------------------------------------------------------
\* Properties of the trial-expiry check
\* ------------------------------------------------------------------------
\* the end of the trial lies in [now, now + 2 days]
InTrialWindow(p, now) ==
    /\ IsSet(p.trialEndsAt)
    /\ 0 <= DiffMs(p.trialEndsAt, now)
    /\ DiffMs(p.trialEndsAt, now) <= 2 * MsPerDay

\* the remaining time rounded up to whole days
WholeDaysLeft(p, now) ==
    CHOOSE n \in 0..3 :
        /\ DiffMs(p.trialEndsAt, now) <= n * MsPerDay
        /\ n > 0 => DiffMs(p.trialEndsAt, now) > (n - 1) * MsPerDay

TrialCandidates(now) ==
    { m \in Members :
        /\ trialUsers[m].status = "free_trial"
        /\ trialUsers[m].fcmTokens # <<>>
        /\ InTrialWindow(trialUsers[m], now) }

\* C21 (as amended): a completed check selected exactly the active accounts
\* with status trial, a device token and trialEndsAt in [now, now + 2 days],
\* and it sent a push, carrying the remaining time rounded up to whole days,
\* to exactly those of them for which that number is 1 or 2; 36 hours give
\* 2 and 20 hours give 1.
TrialCheckSelectsActive ==
    (trialJob.pc = "done" /\ ~trialJob.failed) =>
        LET now == trialJob.now
            expected == { m \in TrialCandidates(now) : trialUsers[m].isActive }
        IN  /\ trialJob.selected = expected
            /\ { q.userId : q \in trialJob.pushes } =
                   { m \in expected :
                        WholeDaysLeft(trialUsers[m], now) \in {1, 2} }
            /\ \A q \in trialJob.pushes :
                   /\ q.daysLeft = WholeDaysLeft(trialUsers[q.userId], now)
                   /\ DiffMs(trialUsers[q.userId].trialEndsAt, now)
                          = 36 * MsPerHour => q.daysLeft = 2
                   /\ DiffMs(trialUsers[q.userId].trialEndsAt, now)
                          = 20 * MsPerHour => q.daysLeft = 1

\* C21 witness: a completed check pushed "2 days" to an account with 36
\* hours left and "1 day" to an account with 20 hours left.
TrialCheckPushedBoth ==
    /\ trialJob.pc = "done"
    /\ \E q \in trialJob.pushes :
          /\ q.daysLeft = 2
          /\ DiffMs(trialUsers[q.userId].trialEndsAt, trialJob.now) = 36 * MsPerHour
    /\ \E q \in trialJob.pushes :
          /\ q.daysLeft = 1
          /\ DiffMs(trialUsers[q.userId].trialEndsAt, trialJob.now) = 20 * MsPerHour

\* C21 (as stated): a completed check selected exactly the accounts with
\* status trial, a device token and trialEndsAt in [now, now + 2 days].
TrialCheckSelectsAll ==
    (trialJob.pc = "done" /\ ~trialJob.failed) =>
        trialJob.selected = TrialCandidates(trialJob.now)


\* ------------------------------------------------------------------------
\* Properties of the reminder runs under failures
\* ------------------------------------------------------------------------
\* C22: a step of a reminder run in which the store query or the push
\* dispatch fails ends that run (the failure is caught in the run), the
\* dispatcher is invoked at most once per run, and the registry and the
\* scheduled tasks are left as they were: every job is still registered and
\* its task still fires.
RunFailureContained ==
    [][/\ job'.calls <= 1
       /\ (job' # job /\ job'.failed) =>
             /\ job'.pc = "done"
             /\ job'.calls = (IF job.pc = "send" THEN 1 ELSE 0)
             /\ reminderJobs' = reminderJobs
             /\ cronTasks' = cronTasks
             /\ \A k \in JobKeys :
                   /\ reminderJobs'[k] # NoTask
                   /\ \E t \in cronTasks' :
                         t.live /\ t.key = k /\ t.id = reminderJobs'[k]]_vars

\* C22 witness: the dispatch of a run failed, and the run of a later tick
\* has dispatched its batch.
LaterRunAfterFailure ==
    /\ job.pc = "done"
    /\ ~job.failed
    /\ job.calls = 1
    /\ job.sent # <<>>
    /\ job.prevFailed
    /\ job.prev # <<>>


\* ------------------------------------------------------------------------
\* Properties of the code generation
\* ------------------------------------------------------------------------
\* the documents that the bulk request has saved
PersistedByBulk == { d \in ledger : d.by = "bulk" }

\* C23: generateUniqueCode makes at most 10 collision checks for a code and
\* a code it returns was not in the Ledger when it was checked; a failure to
\* generate or to save one code does not end the batch: when the request is
\* answered every one of the requested codes was attempted, and the reported
\* count is the number of documents the request saved (at most the requested
\* number).
BulkGenerationBounded ==
    [][/\ bulk'.checks <= maxAttempts
       /\ (bulk.pc = "generate" /\ bulk'.pc = "save") =>
             /\ ~InLedger(bulk'.code)
             /\ bulk'.checks = bulk.checks + 1
       /\ bulk'.pc = "done" =>
             /\ Len(bulk'.outcome) = bulk'.requested
             /\ bulk'.generated = Cardinality(PersistedByBulk')
             /\ bulk'.generated <= bulk'.requested
             /\ { bulk'.promoCodes[k] : k \in 1..bulk'.generated } =
                    { d.code : d \in PersistedByBulk' }]_vars

\* C23 witness: the generation of the first code gave up after 10 collisions
\* and the second code of the batch was generated and saved.
BulkContinuedAfterGivingUp ==
    /\ bulk.pc = "done"
    /\ bulk.requested = 2
    /\ bulk.outcome[1] = OutExhausted
    /\ bulk.outcome[2] = OutSaved
    /\ bulk.generated = 1


\* ------------------------------------------------------------------------
\* Properties of the account document
\* ------------------------------------------------------------------------
\* C24: no step of any operation (payment events, redemption, subscription
\* create and cancel, profile and settings updates, token updates,
\* deactivation) changes or clears the trialEndsAt that the account got when
\* it was created.
TrialEndNeverChanges ==
    [][\A u \in Users :
          /\ IsSet(users'[u].subscription.trialEndsAt)
          /\ users'[u].subscription.trialEndsAt =
                 users[u].subscription.trialEndsAt]_vars

\* C24 witness: an account that redeemed a code, was reached by a payment
\* event, subscribed and canceled, changed its settings and its tokens and
\* was deactivated still has the trialEndsAt of its creation.
TrialEndKeptThroughout ==
    \E u \in Users :
        /\ rq[1].pc = "done" /\ rq[1].status = 200 /\ rq[1].user = u
        /\ hooks[1].pc = "done" /\ hooks[1].log # NoLog
        /\ tr[1].pc = "done" /\ tr[1].user = u
        /\ users[u].fcmTokens # <<>>
        /\ ~users[u].isActive
        /\ users[u].settings # NewSettings
        /\ users[u].subscription.stripeSubscriptionId # NoSub
        /\ users[u].subscription.status = "canceled"
        /\ IsSet(users[u].subscription.canceledAt)
        /\ users[u].subscription.trialEndsAt =
               NewSubscription(DateAt(0)).trialEndsAt


\* C25: a step changes the subscription sub-record of an account (status,
\* period bounds, canceledAt, external references) only if it is the write
\* of the webhook handler or the save of a promo redemption.
SubscriptionWrittenByProcessorsOnly ==
    [][\A u \in Users :
          users'[u].subscription # users[u].subscription =>
              \/ \E h \in Hooks :
                    /\ hooks[h].pc = "update" /\ hooks'[h].pc = "done"
                    /\ hooks[h].cust.userId = u
              \/ \E r \in Reqs :
                    /\ rq[r].pc = "save" /\ rq'[r].pc = "done"
                    /\ rq[r].user = u]_vars


\* C26: the device-token list of an account never holds the same token
\* twice, whatever the interleaving of logins, token replacements and
\* logouts.
NoDuplicateTokens ==
    \A u \in Users :
        \A i, j \in 1..Len(users[u].fcmTokens) :
            i # j => users[u].fcmTokens[i] # users[u].fcmTokens[j]


\* C27: a redemption and a payment event that run concurrently on one
\* account leave the sub-record that running them one after another leaves:
\* the save of the redemption writes the benefit applied to the sub-record
\* as it is stored at that moment, not to a value that the event has
\* overwritten since the redemption read it.
RedemptionAppliesToStoredRecord ==
    [][\A r \in Reqs :
          (rq[r].pc = "save" /\ rq'[r].pc = "done" /\ rq'[r].status = 200) =>
              users'[rq[r].user].subscription =
                  ApplyBenefits(rq[r].doc.type,
                                users[rq[r].user].subscription, Now)]_vars


\* ------------------------------------------------------------------------
\* Properties of the Ledger under concurrent and failing redemptions
\* ------------------------------------------------------------------------
\* C28: usedCount equals the number of entries of usedBy, and with a usage
\* limit L no more than L redemption requests succeed.
UsageCountMatchesRedemptions ==
    /\ promo.usedCount = Len(promo.usedBy)
    /\ promo.usageLimit # NoLimit =>
           Cardinality({ r \in Reqs : rq[r].pc = "done" /\ rq[r].status = 200 })
               <= promo.usageLimit

\* C29: a redemption request that has recorded its use in the Ledger does
\* not end with an error response while the Ledger keeps that use: either
\* the entitlement is applied, or usedBy and usedCount are as before.
RedemptionAllOrNothing ==
    [][\A r \in Reqs :
          (/\ rq[r].pc \in {"findUser", "save"}
           /\ rq'[r].pc = "done"
           /\ rq'[r].status # 200)
          => (/\ ~Includes(promo'.usedBy, rq[r].user)
              /\ promo'.usedCount < promo.usedCount)]_vars


\* ------------------------------------------------------------------------
\* Properties of the scheduler's registry
\* ------------------------------------------------------------------------
\* C30: every live cron task is the one tracked in reminderJobs under its
\* instant, so there is at most one live task per instant, and once the
\* registry is empty (after stopAllReminders) no instant fires.
LiveTasksTracked ==
    /\ \A t \in cronTasks : t.live => reminderJobs[t.key] = t.id
    /\ (\A k \in JobKeys : reminderJobs[k] = NoTask)
           => \A k \in JobKeys : ~Fires(k)

=============================================================================
